---- MODULE Spec2Model ----
(***************************************************************************)
(* A model of buildhtml (src/index.js): the pooled Element/Document        *)
(* lifecycle, the recursive renderer with escaping, the LRU response       *)
(* cache with its in-flight registry, and the builder methods that capture *)
(* state, computed callables and events.                                   *)
(*                                                                         *)
(* Strings are sequences of one-character strings, so that escaping,       *)
(* kebab conversion and substring tests are computed, not assumed.         *)
(***************************************************************************)
EXTENDS Integers, Sequences, FiniteSets, TLC

VARIABLES
  heap,           \* Element instances, by identity: fields of class Element
  nElts,          \* how many Element instances have been constructed
  pools,          \* pools.elements: the free list (a stack of instances)
  docs,           \* Document instances: body, _stateStore, cache flags, ...
  ridCounter,     \* the module-level id counter
  responseCache,  \* responseCache.cache: a Map in insertion order
  inFlightCache,  \* inFlightCache: key -> pending promise
  comps,          \* the promises createCachedRenderer registers
  nComps,         \* how many promises have been created
  reqs,           \* requests served by the cached renderer
  handles,        \* the Elements the application was handed and may still use
  txt,            \* the text under test in the escaping specification
  warm,           \* the warmupCache call in progress: routes, position, results
  used,           \* how many operations of each kind the application has made
  last            \* the last operation: its name, arguments and outcome

vars == <<heap, nElts, pools, docs, ridCounter, responseCache, inFlightCache,
          comps, nComps, reqs, handles, txt, warm, used, last>>

poolVars  == <<heap, nElts, pools, docs, ridCounter, handles>>
cacheVars == <<responseCache, inFlightCache, comps, nComps, reqs>>

(***************************************************************************)
(* Bounds of the model.                                                    *)
(***************************************************************************)
MaxElts == 3      \* Element instances that can be constructed
MaxKids == 2      \* entries of one children list
MaxBody == 2      \* entries of one document body
MaxRid == 4       \* ids the generator may issue
MaxLen == 3       \* length of the text under test
poolSize == 2     \* CONFIG.poolSize, scaled down
cacheLimit == 2   \* CONFIG.cacheLimit, scaled down
MaxComps == 3     \* promises the cached renderer may create
MaxReqs == 3      \* requests
MaxOps == 4       \* direct cache operations by the application
MaxCreate == 3    \* createElement and child calls
MaxAppend == 1    \* append calls with an Element
MaxMut == 1       \* other builder calls (attr, text, state, ...)
MaxClear == 1     \* render and clear calls
MaxCalls == 2     \* builder calls that take a callable
MaxDocOps == 1    \* Document.state and Document.oncreate calls
MaxHydrated == 2  \* Elements of the hydration specification
MaxRendered == 2  \* Elements of the render specification
MaxHydrateCalls == 3  \* its builder calls that take a callable
MaxRoutes == 3    \* routes of one warmupCache call
MaxSerialized == 1  \* Elements of the Document that is serialized
MaxRestores == 1  \* fromJSON calls

(***************************************************************************)
(* Program constants.                                                      *)
(***************************************************************************)
maxComputedFnSize == 10000
maxEventFnSize == 5000

\* null / undefined, and a value that is not a string (a number, say)
Null == <<"#null">>
NonString == <<"#42">>

Elts == 1..MaxElts
Docs == 1..2

(***************************************************************************)
(* Utilities                                                               *)
(***************************************************************************)
RECURSIVE Flatten(_)
Flatten(ss) == IF ss = <<>> THEN <<>> ELSE Head(ss) \o Flatten(Tail(ss))

Range(s) == {s[i] : i \in 1..Len(s)}

\* str.includes(pat)
Includes(str, pat) ==
  \E i \in 0..(Len(str) - Len(pat)) : SubSeq(str, i + 1, i + Len(pat)) = pat

\* /[A-Z]/ over the letters the model uses
kebabRegex == {"B", "R", "X"}
toLowerCase(c) == CASE c = "B" -> "b" [] c = "R" -> "r" [] c = "X" -> "x" [] OTHER -> c

\* toKebab(str); the kebabCache in front of it only memoises the same result
toKebab(str) ==
  IF str = Null \/ str = <<>> \/ str = NonString THEN <<>>
  ELSE Flatten([i \in 1..Len(str) |->
         IF str[i] \in kebabRegex THEN <<"-", toLowerCase(str[i])>> ELSE <<str[i]>>])

\* escapeRegex = /[&<>"'\/]/g and escapeMap
\* an escapeRegex that leaves the double quote out
escapeRegexNoQuote == {"&", "<", ">", "'", "/"}

escapeRegex == {"&", "<", ">", "\"", "'", "/"}
escapeMap(c) ==
  CASE c = "&"  -> <<"&", "a", "m", "p", ";">>
    [] c = "<"  -> <<"&", "l", "t", ";">>
    [] c = ">"  -> <<"&", "g", "t", ";">>
    [] c = "\"" -> <<"&", "q", "u", "o", "t", ";">>
    [] c = "'"  -> <<"&", "#", "x", "2", "7", ";">>
    [] c = "/"  -> <<"&", "#", "x", "2", "F", ";">>

escapeHtml(text) ==
  IF text = Null THEN <<>>
  ELSE Flatten([i \in 1..Len(text) |->
         IF text[i] \in escapeRegex THEN escapeMap(text[i]) ELSE <<text[i]>>])

\* unescapeRegex = /&(?:amp|lt|gt|quot|#x27|#x2F);/g and unescapeMap
unescapeRegex == {escapeMap(c) : c \in escapeRegex}
unescapeMap(ent) == CHOOSE c \in escapeRegex : escapeMap(c) = ent

RECURSIVE unescapeFrom(_, _)
unescapeFrom(text, i) ==
  IF i > Len(text) THEN <<>>
  ELSE LET hits == {ent \in unescapeRegex :
                      /\ i + Len(ent) - 1 <= Len(text)
                      /\ SubSeq(text, i, i + Len(ent) - 1) = ent}
       IN IF hits = {} THEN <<text[i]>> \o unescapeFrom(text, i + 1)
          ELSE LET ent == CHOOSE e \in hits : TRUE
               IN <<unescapeMap(ent)>> \o unescapeFrom(text, i + Len(ent))

unescapeHtml(text) == IF text = Null THEN <<>> ELSE unescapeFrom(text, 1)

(***************************************************************************)
(* Callables.  A callable is known to the program only through typeof and  *)
(* toString(): isFn, the source text (as tokens) and the source's length.  *)
(***************************************************************************)
NoFn == [isFn |-> FALSE, src |-> <<"#null">>, len |-> 0]

\* a validation without the test for script tags
sanitizeNoScriptTest(fn, maxSize) ==
  IF ~fn.isFn THEN [threw |-> TRUE, source |-> <<>>]
  ELSE IF fn.len > maxSize THEN [threw |-> TRUE, source |-> <<>>]
  ELSE [threw |-> FALSE, source |-> fn.src]

\* sanitizeFunctionSource(fn, maxSize): the source, or a throw
sanitizeFunctionSource(fn, maxSize) ==
  IF ~fn.isFn THEN [threw |-> TRUE, source |-> <<>>]
  ELSE IF fn.len > maxSize THEN [threw |-> TRUE, source |-> <<>>]
  ELSE IF "</script>" \in Range(fn.src) \/ "<script" \in Range(fn.src)
       THEN [threw |-> TRUE, source |-> <<>>]
  ELSE [threw |-> FALSE, source |-> fn.src]

(***************************************************************************)
(* Element and the object pool                                             *)
(***************************************************************************)
\* an entry of a children list: an Element (by identity) or a string
Elt(e) == [kind |-> "element", ref |-> e, text |-> <<>>]
Txt(s) == [kind |-> "text", ref |-> 0, text |-> s]

ID == <<"i", "d">>

\* attrs is an object: keys in insertion order, one value per key
HasAttr(attrs, k) == \E i \in 1..Len(attrs) : attrs[i].k = k
AttrGet(attrs, k) ==
  IF HasAttr(attrs, k) THEN (CHOOSE a \in Range(attrs) : a.k = k).v ELSE Null
AttrSet(attrs, k, v) ==
  IF HasAttr(attrs, k)
  THEN [i \in 1..Len(attrs) |-> IF attrs[i].k = k THEN [k |-> k, v |-> v] ELSE attrs[i]]
  ELSE Append(attrs, [k |-> k, v |-> v])

\* !x for the values an attribute can hold: null, undefined and ''
Falsy(v) == v = Null \/ v = <<>>

\* constructor(tag, ridGen, stateStore); _ridGen, _stateStore and _document
\* always come from the same Document and are modelled by document alone
Element(tag) ==
  [tag |-> toKebab(tag), attrs |-> <<>>, children |-> <<>>, events |-> <<>>,
   cssText |-> <<>>, state |-> Null, hydrate |-> FALSE, computed |-> NoFn,
   document |-> 0, stateBindings |-> <<>>]

resetElement(el, tag, document) ==
  [el EXCEPT !.tag = toKebab(tag), !.document = document, !.cssText = <<>>,
             !.state = Null, !.hydrate = FALSE, !.computed = NoFn]

\* The part of the state the pool functions read and write.
\* log is not program state: it records, for the properties below, each call of
\* recycle, and whether it returned at once ("skip") or cleared and pushed ("push").
World == [heap |-> heap, pool |-> pools, nElts |-> nElts, handles |-> handles,
          item |-> 0, ok |-> TRUE, log |-> <<>>]

Ev(ev, e) == [ev |-> ev, e |-> e]

\* getPooled('elements', tag, ridGen, stateStore, document); W.item is returned
getPooled(W, tag, document) ==
  IF Len(W.pool) > 0
  THEN LET item == W.pool[Len(W.pool)]
       IN [W EXCEPT !.pool = SubSeq(W.pool, 1, Len(W.pool) - 1),
                    !.heap[item] = resetElement(@, tag, document),
                    !.handles = @ \cup {item},
                    !.item = item]
  ELSE LET item == W.nElts + 1
       IN [W EXCEPT !.nElts = item,
                    !.heap[item] = [Element(tag) EXCEPT !.document = document],
                    !.handles = @ \cup {item},
                    !.item = item]

\* getPooled can run: the free list is not empty or an instance can be built
CanGetPooled == Len(pools) > 0 \/ nElts < MaxElts

\* The deepest a recycle that returns can nest: between two frames of the same
\* Element a push happened, and at most poolSize pushes precede a full pool.
\* A deeper nesting never returns: the call stack overflows (RangeError).
MaxDepth == (poolSize + 1) * MaxElts + 1

\* the body of recycle after the loop over the children
recycleFinish(W, item) ==
  [W EXCEPT !.heap[item] = [@ EXCEPT !.children = <<>>, !.events = <<>>,
                                      !.stateBindings = <<>>, !.cssText = <<>>,
                                      !.state = Null, !.computed = NoFn,
                                      !.attrs = <<>>],
            !.pool = Append(@, item),
            !.log = Append(@, Ev("push", item))]

\* a recycle that clears and pushes the item without visiting its children
recycleLoopShallow(W, item, i, fuel) == recycleFinish(W, item)

RECURSIVE recycle(_, _, _)
RECURSIVE recycleLoop(_, _, _, _)

\* recycle('elements', item); fuel counts the frames the call stack has left
recycle(W, item, fuel) ==
  IF ~W.ok THEN W
  ELSE IF fuel = 0 THEN [W EXCEPT !.ok = FALSE]
  ELSE LET W1 == [W EXCEPT !.handles = @ \ {item}, !.log = Append(@, Ev("call", item))]
       IN IF Len(W1.pool) >= poolSize THEN [W1 EXCEPT !.log = Append(@, Ev("skip", item))]
          ELSE recycleLoop(W1, item, 1, fuel)

\* for (let i = 0; i < item.children.length; i++) ..., then the clearing
recycleLoop(W, item, i, fuel) ==
  IF ~W.ok THEN W
  ELSE IF i > Len(W.heap[item].children) THEN recycleFinish(W, item)
  ELSE LET child == W.heap[item].children[i]
       IN IF child.kind = "element"
          THEN recycleLoop(recycle(W, child.ref, fuel - 1), item, i + 1, fuel)
          ELSE recycleLoop(W, item, i + 1, fuel)

RECURSIVE clearLoop(_, _, _)
clearLoop(W, body, i) ==
  IF ~W.ok \/ i > Len(body) THEN W
  ELSE clearLoop(recycle(W, body[i], MaxDepth), body, i + 1)

\* Document.clear(): the pool side; W.ok is FALSE when a recycle overflowed
clearWorld(W, doc) == clearLoop(W, doc.body, 1)

\* a clear that leaves the state store as it is
clearDocKeepStore(doc) == [doc EXCEPT !.body = <<>>]

\* Document.clear(): the document side, reached only when no recycle threw
clearDoc(doc) == [doc EXCEPT !.body = <<>>, !.stateStore = <<>>]


(***************************************************************************)
(* LRUCache: cache is a Map, modelled by its entries in insertion order    *)
(* (the first entry is the least recently used one).                       *)
(***************************************************************************)
Keys(cache) == {cache[i].key : i \in 1..Len(cache)}
Remove(cache, key) == SelectSeq(cache, LAMBDA en : en.key # key)
ValueOf(cache, key) == (CHOOSE en \in Range(cache) : en.key = key).value

\* a get that reads the value and leaves the entry where it is
LRUCache_getInPlace(cache, key) ==
  IF key \in Keys(cache) THEN [value |-> ValueOf(cache, key), cache |-> cache]
  ELSE [value |-> Null, cache |-> cache]

\* get(key): the value (null when absent) and the cache after the call
LRUCache_get(cache, key) ==
  IF key \notin Keys(cache) THEN [value |-> Null, cache |-> cache]
  ELSE [value |-> ValueOf(cache, key),
        cache |-> Append(Remove(cache, key), [key |-> key, value |-> ValueOf(cache, key)])]

\* a set that never evicts
LRUCache_setNoEviction(cache, limit, key, value) ==
  Append(Remove(cache, key), [key |-> key, value |-> value])

\* a set that stores nothing
LRUCache_setDropped(cache, limit, key, value) == cache

\* set(key, value) of a cache with the given limit
LRUCache_set(cache, limit, key, value) ==
  LET c1 == IF key \in Keys(cache) THEN Remove(cache, key)
            ELSE IF Len(cache) >= limit
                 THEN (IF cache = <<>> THEN cache ELSE Tail(cache))
                 ELSE cache
  IN Append(c1, [key |-> key, value |-> value])

LRUCache_delete(cache, key) == Remove(cache, key)
LRUCache_clear(cache) == <<>>

(***************************************************************************)
(* Renderer                                                                *)
(***************************************************************************)
S(str) == <<str>>   \* a literal of the source, kept as one piece of output

\* the set without 'input'
voidElementsNoInput ==
  { <<"a","r","e","a">>, <<"b","a","s","e">>, <<"b","r">>, <<"c","o","l">>,
    <<"e","m","b","e","d">>, <<"h","r">>, <<"i","m","g">>,
    <<"l","i","n","k">>, <<"m","e","t","a">>, <<"p","a","r","a","m">>,
    <<"s","o","u","r","c","e">>, <<"t","r","a","c","k">>, <<"w","b","r">> }

voidElements ==
  { <<"a","r","e","a">>, <<"b","a","s","e">>, <<"b","r">>, <<"c","o","l">>,
    <<"e","m","b","e","d">>, <<"h","r">>, <<"i","m","g">>, <<"i","n","p","u","t">>,
    <<"l","i","n","k">>, <<"m","e","t","a">>, <<"p","a","r","a","m">>,
    <<"s","o","u","r","c","e">>, <<"t","r","a","c","k">>, <<"w","b","r">> }

EmptyCtx == [events |-> <<>>, states |-> <<>>, styles |-> <<>>, computed |-> <<>>,
             stateBindings |-> <<>>]

\* for (const k in n.attrs) ...: ' ', toKebab(k), '="', escapeHtml(value), '"'
renderAttrs(attrs) ==
  Flatten([i \in 1..Len(attrs) |->
    IF attrs[i].v # Null
    THEN <<" ">> \o toKebab(attrs[i].k) \o <<"=", "\"">> \o escapeHtml(attrs[i].v) \o <<"\"">>
    ELSE <<>>])

\* what renderNode pushes to ctx before it renders the children
collectBefore(n, ctx) ==
  LET c1 == IF n.cssText # <<>> THEN [ctx EXCEPT !.styles = Append(@, n.cssText)] ELSE ctx
      c2 == IF n.state # Null
            THEN [c1 EXCEPT !.states = Append(@, [id |-> AttrGet(n.attrs, ID),
                                                 value |-> n.state, tag |-> n.tag])]
            ELSE c1
      san == sanitizeFunctionSource(n.computed, maxComputedFnSize)
      c3 == IF n.computed # NoFn /\ ~san.threw
            THEN [c2 EXCEPT !.computed = Append(@, [id |-> AttrGet(n.attrs, ID),
                                                   fn |-> san.source])]
            ELSE c2
  IN [c3 EXCEPT !.stateBindings = @ \o n.stateBindings]

RECURSIVE renderNode(_, _, _, _)
RECURSIVE renderChildren(_, _, _, _, _)

\* renderNode(n, ctx) on the heap h: the string, the ctx after, and ok = FALSE
\* when the recursion never returns (the call stack overflows)
renderNode(h, n, ctx, fuel) ==
  IF n.kind = "text" THEN [html |-> n.text, ctx |-> ctx, ok |-> TRUE]
  ELSE IF fuel = 0 THEN [html |-> <<>>, ctx |-> ctx, ok |-> FALSE]
  ELSE LET el == h[n.ref]
           open == <<"<">> \o el.tag \o renderAttrs(el.attrs) \o <<">">>
           c4 == collectBefore(el, ctx)
           kids == IF el.tag \notin voidElements
                   THEN renderChildren(h, el.children, 1, c4, fuel - 1)
                   ELSE [html |-> <<>>, ctx |-> c4, ok |-> TRUE]
           close == IF el.tag \notin voidElements
                    THEN <<"<", "/">> \o el.tag \o <<">">> ELSE <<>>
       IN [html |-> open \o kids.html \o close,
           ctx |-> [kids.ctx EXCEPT !.events = @ \o el.events],
           ok |-> kids.ok]

renderChildren(h, children, i, ctx, fuel) ==
  IF i > Len(children) THEN [html |-> <<>>, ctx |-> ctx, ok |-> TRUE]
  ELSE LET r == renderNode(h, children[i], ctx, fuel)
       IN IF ~r.ok THEN r
          ELSE LET rest == renderChildren(h, children, i + 1, r.ctx, fuel)
               IN [html |-> r.html \o rest.html, ctx |-> rest.ctx, ok |-> rest.ok]

\* the loop of Document.render over this.body
renderBody(h, body) ==
  renderChildren(h, [i \in 1..Len(body) |-> Elt(body[i])], 1, EmptyCtx, MaxElts + 1)


(***************************************************************************)
(* Hydration compiler                                                      *)
(***************************************************************************)
namespace == <<"_ssr", "T">>      \* '_ssr' + Date.now().toString(36)
PLACEHOLDER == "__STATE_ID__"

INPUT == <<"i","n","p","u","t">>
TEXTAREA == <<"t","e","x","t","a","r","e","a">>

\* JSON.stringify of a globalState object: {"k":v,...}
stringifyObject(obj) ==
  S("{") \o Flatten([i \in 1..Len(obj) |->
            (IF i > 1 THEN S(",") ELSE <<>>) \o S("\"") \o obj[i].k \o S("\":") \o obj[i].v])
         \o S("}")

\* fnSource.replace(/__STATE_ID__/g, targetId)
\* with a string as the replacement, String.prototype.replace expands in it
\* $$ to $, $& to the match, $` to the text before the match and $' to the
\* text after it; another $ stands for itself (the pattern has no groups)
RECURSIVE getSubstitution(_, _, _, _, _)
getSubstitution(replacement, j, matched, before, after) ==
  IF j > Len(replacement) THEN <<>>
  ELSE IF replacement[j] = "$" /\ j < Len(replacement)
            /\ replacement[j + 1] \in {"$", "&", "`", "'"}
       THEN (CASE replacement[j + 1] = "$" -> <<"$">>
               [] replacement[j + 1] = "&" -> <<matched>>
               [] replacement[j + 1] = "`" -> before
               [] replacement[j + 1] = "'" -> after)
            \o getSubstitution(replacement, j + 2, matched, before, after)
       ELSE <<replacement[j]>> \o getSubstitution(replacement, j + 1, matched, before, after)

replaceStateId(src, targetId) ==
  Flatten([i \in 1..Len(src) |->
    IF src[i] = PLACEHOLDER
    THEN getSubstitution(targetId, 1, PLACEHOLDER,
                         SubSeq(src, 1, i - 1), SubSeq(src, i + 1, Len(src)))
    ELSE <<src[i]>>])

proxyScript(ctx, globalState) ==
  S("var _cbs={};")
  \o S("window.watchState=function(k,f){(_cbs[k]=_cbs[k]||[]).push(f);};")
  \o S("window.State=new Proxy(") \o stringifyObject(globalState) \o S(",{")
  \o S("set:function(t,k,v){if(t[k]===v)return true;t[k]=v;if(_cbs[k])_cbs[k].forEach(function(f){f(v);});return true;}")
  \o S("});")

initStates(ctx) ==
  S("var initStates=function(){")
  \o Flatten([i \in 1..Len(ctx.states) |->
       LET st == ctx.states[i]
           prop == IF st.tag = INPUT \/ st.tag = TEXTAREA THEN "value" ELSE "textContent"
       IN namespace \o S(".state[\"") \o st.id \o S("\"]=") \o st.value \o S(";")
          \o S("(function(){var el=getById(\"") \o st.id \o S("\");if(el)el.") \o S(prop)
          \o S("=") \o namespace \o S(".state[\"") \o st.id \o S("\"];})();")])
  \o S("};")

initComputed(ctx) ==
  S("var initComputed=function(){")
  \o Flatten([i \in 1..Len(ctx.computed) |->
       LET c == ctx.computed[i]
       IN S("(function(){var el=getById(\"") \o c.id \o S("\");")
          \o S("if(el)try{el.textContent=(") \o c.fn \o S(")(") \o namespace
          \o S(".state);}catch(e){console.error(\"Computed error:\",e);}")
          \o S("})();")])
  \o S("};")

initBindings(ctx) ==
  S("var initBindings=function(){")
  \o Flatten([i \in 1..Len(ctx.stateBindings) |->
       LET b == ctx.stateBindings[i]
       IN S("window.watchState('") \o b.stateKey \o S("',function(val){")
          \o S("var el=getById('") \o b.id \o S("');")
          \o S("if(el)try{el.textContent=(") \o b.templateFn
          \o S(")(val);}catch(e){console.error('Binding error:',e);}")
          \o S("});")
          \o S("(function(){")
          \o S("var el=getById('") \o b.id \o S("');")
          \o S("if(el&&window.State['") \o b.stateKey \o S("']!==undefined)")
          \o S("try{el.textContent=(") \o b.templateFn \o S(")(window.State['")
          \o b.stateKey \o S("']);}catch(e){}")
          \o S("})();")])
  \o S("};")

initEvents(ctx) ==
  S("var initEvents=function(){")
  \o Flatten([i \in 1..Len(ctx.events) |->
       LET e == ctx.events[i]
           fnSource == IF ~Falsy(e.targetId) THEN replaceStateId(e.fn.src, e.targetId)
                       ELSE e.fn.src
       IN S("(function(){var el=getById(\"") \o e.id \o S("\");")
          \o S("if(el)try{el.addEventListener(\"") \o e.event \o S("\",") \o fnSource
          \o S(");}catch(err){console.error(\"Event handler error:\",err);}")
          \o S("})();")])
  \o S("};")

initOncreate(oncreates) ==
  S("var initOncreate=function(){")
  \o Flatten([i \in 1..Len(oncreates) |->
       LET san == sanitizeFunctionSource(oncreates[i], maxEventFnSize)
       IN IF san.threw THEN <<>> ELSE S("(") \o san.source \o S(")();")])
  \o S("};")

\* a dispatch that attaches the event listeners first
initCallsEventsFirst(ctx, oncreates) ==
  (IF Len(ctx.events) > 0 THEN S("initEvents();") ELSE <<>>)
  \o (IF Len(ctx.states) > 0 THEN S("initStates();") ELSE <<>>)
  \o (IF Len(ctx.computed) > 0 THEN S("initComputed();") ELSE <<>>)
  \o (IF Len(ctx.stateBindings) > 0 THEN S("initBindings();") ELSE <<>>)
  \o (IF Len(oncreates) > 0 THEN S("initOncreate();") ELSE <<>>)

\* the calls pushed twice: in the DOMContentLoaded listener and in the else branch
initCalls(ctx, oncreates) ==
  (IF Len(ctx.states) > 0 THEN S("initStates();") ELSE <<>>)
  \o (IF Len(ctx.computed) > 0 THEN S("initComputed();") ELSE <<>>)
  \o (IF Len(ctx.stateBindings) > 0 THEN S("initBindings();") ELSE <<>>)
  \o (IF Len(ctx.events) > 0 THEN S("initEvents();") ELSE <<>>)
  \o (IF Len(oncreates) > 0 THEN S("initOncreate();") ELSE <<>>)

\* compileClient(ctx) after its early return: the script
clientScript(ctx, oncreates, globalState) ==
  S("(function(){")
  \o S("var ") \o namespace \o S("={state:{}};")
  \o S("var getById=function(id){return document.getElementById(id);};")
  \o (IF Len(globalState) > 0 \/ Len(ctx.stateBindings) > 0
      THEN proxyScript(ctx, globalState) ELSE <<>>)
  \o (IF Len(ctx.states) > 0 THEN initStates(ctx) ELSE <<>>)
  \o (IF Len(ctx.computed) > 0 THEN initComputed(ctx) ELSE <<>>)
  \o (IF Len(ctx.stateBindings) > 0 THEN initBindings(ctx) ELSE <<>>)
  \o (IF Len(ctx.events) > 0 THEN initEvents(ctx) ELSE <<>>)
  \o (IF Len(oncreates) > 0 THEN initOncreate(oncreates) ELSE <<>>)
  \o S("if(document.readyState===\"loading\"){")
  \o S("document.addEventListener(\"DOMContentLoaded\",function(){")
  \o initCalls(ctx, oncreates)
  \o S("});") \o S("}else{")
  \o initCalls(ctx, oncreates)
  \o S("}")
  \o S("window.") \o namespace \o S("=") \o namespace \o S(";")
  \o S("})();")

\* a compiler without the early return
compileClientNoEarlyReturn(ctx, oncreates, globalState) ==
  clientScript(ctx, oncreates, globalState)

\* compileClient(ctx), with ctx.oncreates and ctx.globalState passed apart
compileClient(ctx, oncreates, globalState) ==
  IF  /\ Len(ctx.states) = 0 /\ Len(ctx.computed) = 0 /\ Len(ctx.events) = 0
      /\ Len(oncreates) = 0 /\ Len(globalState) = 0 /\ Len(ctx.stateBindings) = 0
  THEN <<>>
  ELSE clientScript(ctx, oncreates, globalState)

(***************************************************************************)
(* Document                                                                *)
(***************************************************************************)
\* new Document(options); the Head is modelled by its title, the other head
\* lists stay empty.  _lastRendered is only read by output() and save().
Document(cache, cacheKey) ==
  [body |-> <<>>, title |-> <<"D","o","c","u","m","e","n","t">>, stateStore |-> <<>>,
   globalState |-> <<>>, useResponseCache |-> cache,
   cacheKey |-> IF Falsy(cacheKey) THEN Null ELSE cacheKey,
   oncreateCallbacks |-> <<>>]

\* Head.render() of a head that holds a title only
headRender(doc) ==
  S("<meta charset=\"UTF-8\">") \o S("<title>") \o doc.title \o S("</title>")

\* the html Document.render assembles (CONFIG.mode is 'dev': no minification)
pageHtml(doc, r) ==
  LET clientJS == compileClient(r.ctx, doc.oncreateCallbacks, doc.globalState)
  IN S("<!DOCTYPE html><html lang=\"en\"><head>")
     \o headRender(doc)
     \o (IF Len(r.ctx.styles) > 0
         THEN S("<style>") \o Flatten(r.ctx.styles) \o S("</style>") ELSE <<>>)
     \o S("</head><body>")
     \o r.html
     \o (IF clientJS # <<>> THEN S("<script>") \o clientJS \o S("</script>") ELSE <<>>)
     \o S("</body></html>")

\* Document.render() of doc in the world W with the response cache `cache`:
\* the world, cache and document after the call, and the string returned, or
\* threw = TRUE when renderNode or recycle overflowed the call stack.
render(W, cache, doc) ==
  LET useKey == doc.useResponseCache /\ ~Falsy(doc.cacheKey)
      got == IF useKey THEN LRUCache_get(cache, doc.cacheKey)
             ELSE [value |-> Null, cache |-> cache]
  IN IF useKey /\ ~Falsy(got.value)
     THEN LET W1 == clearWorld(W, doc)
          IN [W |-> W1, cache |-> got.cache, threw |-> ~W1.ok, hit |-> TRUE,
              doc |-> IF W1.ok THEN clearDoc(doc) ELSE doc,
              result |-> got.value, ctx |-> EmptyCtx]
     ELSE LET r == renderBody(W.heap, doc.body)
              result == pageHtml(doc, r)
              cache2 == IF useKey
                        THEN LRUCache_set(got.cache, cacheLimit, doc.cacheKey, result)
                        ELSE got.cache
              W1 == clearWorld(W, doc)
          IN IF ~r.ok
             THEN [W |-> W, cache |-> got.cache, threw |-> TRUE, hit |-> FALSE,
                   doc |-> doc, result |-> <<>>, ctx |-> EmptyCtx]
             ELSE [W |-> W1, cache |-> cache2, threw |-> ~W1.ok, hit |-> FALSE,
                   doc |-> IF W1.ok THEN clearDoc(doc) ELSE doc,
                   result |-> result, ctx |-> r.ctx]


(***************************************************************************)
(* Element methods.  Each takes the Element's fields and gives them back;  *)
(* the ones that may call id() also thread the id counter.                 *)
(***************************************************************************)
toString36 == <<"1","2","3","4","5","6","7","8","9","a","b","c","d","e","f","g">>

\* createRidGenerator(): `id-${ridPrefix}${(++ridCounter).toString(36)}`,
\* ridPrefix being fixed for the process; n is the counter after ++
ridGen(n) == <<"i","d","-","p">> \o <<toString36[n]>>

attr(el, key, value) == [el EXCEPT !.attrs = AttrSet(@, toKebab(key), value)]

\* an id() whose generator reads the counter without advancing it
idKeepsCounter(el, v, rid) ==
  [el |-> [el EXCEPT !.attrs = AttrSet(@, ID, IF Falsy(v) THEN ridGen(rid + 1) ELSE v)],
   rid |-> rid]

\* id(v): this.attrs.id = v || this._ridGen()
id(el, v, rid) ==
  IF Falsy(v)
  THEN [el |-> [el EXCEPT !.attrs = AttrSet(@, ID, ridGen(rid + 1))], rid |-> rid + 1]
  ELSE [el |-> [el EXCEPT !.attrs = AttrSet(@, ID, v)], rid |-> rid]

\* if (!this.attrs.id) this.id()
ensureId(el, rid) ==
  IF Falsy(AttrGet(el.attrs, ID)) THEN id(el, Null, rid) ELSE [el |-> el, rid |-> rid]

\* a text() that stores its argument as it is
textUnescaped(el, c) ==
  IF c # Null THEN [el EXCEPT !.children = Append(@, Txt(c))] ELSE el

text(el, c) ==
  IF c # Null THEN [el EXCEPT !.children = Append(@, Txt(escapeHtml(c)))] ELSE el

\* append(c): c is a child entry, Elt(e) for an Element and Txt(s) for any other value
append(el, c) ==
  IF c.kind = "text" /\ c.text = Null THEN el
  ELSE [el EXCEPT !.children =
          Append(@, IF c.kind = "element" THEN c ELSE Txt(escapeHtml(c.text)))]

\* state(v): the Element's side; the store's side is in the action
state(el, v, rid) ==
  LET r == ensureId(el, rid)
  IN [el |-> [r.el EXCEPT !.state = v, !.hydrate = TRUE], rid |-> r.rid]

\* the catch block of computed, on, bindState and bind: the error is logged
\* and the method goes on to `return this`
Caught(el, rid) == [el |-> el, rid |-> rid, threw |-> FALSE]
Returned(el, rid) == [el |-> el, rid |-> rid, threw |-> FALSE]

computed(el, fn, rid) ==
  IF sanitizeFunctionSource(fn, maxComputedFnSize).threw THEN Caught(el, rid)
  ELSE LET r == ensureId([el EXCEPT !.computed = fn], rid)
       IN Returned([r.el EXCEPT !.hydrate = TRUE], r.rid)

on(el, ev, fn, rid) ==
  IF sanitizeFunctionSource(fn, maxEventFnSize).threw THEN Caught(el, rid)
  ELSE LET r == ensureId(el, rid)
       IN Returned([r.el EXCEPT
                      !.events = Append(@, [event |-> ev, id |-> AttrGet(r.el.attrs, ID),
                                            targetId |-> Null, fn |-> fn]),
                      !.hydrate = TRUE],
                   r.rid)

\* bindState(target, ev, fn) of the Element e on the heap h; t = 0 is a null
\* target, whose attrs cannot be read (a TypeError, caught)
bindState(h, e, t, ev, fn, rid) ==
  IF sanitizeFunctionSource(fn, maxEventFnSize).threw
  THEN [h |-> h, rid |-> rid, threw |-> FALSE]
  ELSE LET r1 == ensureId(h[e], rid)
           h1 == [h EXCEPT ![e] = r1.el]
       IN IF t = 0 THEN [h |-> h1, rid |-> r1.rid, threw |-> FALSE]
          ELSE LET r2 == ensureId(h1[t], r1.rid)
                   h2 == [h1 EXCEPT ![t] = r2.el]
               IN [h |-> [h2 EXCEPT
                            ![e].events =
                               Append(@, [event |-> ev, id |-> AttrGet(h2[e].attrs, ID),
                                          targetId |-> AttrGet(h2[t].attrs, ID),
                                          fn |-> fn]),
                            ![e].hydrate = TRUE],
                   rid |-> r2.rid, threw |-> FALSE]

\* bind(stateKey, templateFn): the id is assigned before the try block
bind(el, stateKey, templateFn, rid) ==
  LET r == ensureId(el, rid)
      san == sanitizeFunctionSource(templateFn, maxComputedFnSize)
  IN IF templateFn.isFn /\ san.threw THEN Caught(r.el, r.rid)
     ELSE Returned([r.el EXCEPT
                      !.stateBindings =
                         Append(@, [stateKey |-> stateKey, id |-> AttrGet(r.el.attrs, ID),
                                    templateFn |-> IF templateFn.isFn THEN san.source
                                                   ELSE <<"(val) => val">>]),
                      !.hydrate = TRUE],
                   r.rid)


(***************************************************************************)
(* Operations of the application on Documents and Elements                 *)
(***************************************************************************)
DIV == <<"d","i","v">>
TITLE == <<"t","i","t","l","e">>
K1 == <<"k","1">>

\* what `last` records of an operation
Op(op, e, threw, ret, arg) ==
  [op |-> op, e |-> e, threw |-> threw, ret |-> ret, arg |-> arg,
   out |-> <<>>, ctx |-> EmptyCtx, pre |-> <<>>, log |-> <<>>, hit |-> FALSE]

\* the Elements, the free list and the document a render or clear started from
Pre(d) == [heap |-> heap, pool |-> pools, doc |-> docs[d]]

\* the operation of the given kind is within the model's bound, and is counted
Within(kind, max) == used[kind] < max /\ used' = [used EXCEPT ![kind] = @ + 1]

\* Document.createElement(tag), also create(tag) and child(tag)
createElement(d, tag) ==
  /\ Within("create", MaxCreate)
  /\ Len(docs[d].body) < MaxBody
  /\ CanGetPooled
  /\ IF Falsy(tag) \/ tag = NonString
     THEN /\ last' = Op("createElement", 0, TRUE, 0, tag)
          /\ UNCHANGED <<poolVars, cacheVars, txt, warm>>
     ELSE LET W1 == getPooled(World, tag, d)
          IN /\ heap' = W1.heap
             /\ pools' = W1.pool
             /\ nElts' = W1.nElts
             /\ handles' = W1.handles
             /\ docs' = [docs EXCEPT ![d].body = Append(@, W1.item)]
             /\ last' = Op("createElement", 0, FALSE, W1.item, tag)
             /\ UNCHANGED <<ridCounter, cacheVars, txt, warm>>

\* Element.child(tag), also create(tag), called on the Element e
child(e, tag) ==
  /\ Within("create", MaxCreate)
  /\ e \in handles
  /\ Len(heap[e].children) < MaxKids
  /\ CanGetPooled
  /\ LET W1 == getPooled(World, tag, heap[e].document)
     IN /\ heap' = [W1.heap EXCEPT ![e].children = Append(@, Elt(W1.item))]
        /\ pools' = W1.pool
        /\ nElts' = W1.nElts
        /\ handles' = W1.handles
        /\ last' = Op("child", e, FALSE, W1.item, tag)
        /\ UNCHANGED <<docs, ridCounter, cacheVars, txt, warm>>

\* e.append(c) with c an Element the application holds
appendElement(e, c) ==
  /\ Within("append", MaxAppend)
  /\ e \in handles /\ c \in handles
  /\ Len(heap[e].children) < MaxKids
  /\ heap' = [heap EXCEPT ![e] = append(@, Elt(c))]
  /\ last' = Op("append", e, FALSE, e, <<>>)
  /\ UNCHANGED <<nElts, pools, docs, ridCounter, handles, cacheVars, txt, warm>>

\* d.useFragment(fn) with fn returning the Element c the application holds
useFragment(d, c) ==
  /\ Within("append", MaxAppend)
  /\ c \in handles
  /\ Len(docs[d].body) < MaxBody
  /\ docs' = [docs EXCEPT ![d].body = Append(@, c)]
  /\ last' = Op("useFragment", 0, FALSE, 0, <<>>)
  /\ UNCHANGED <<heap, nElts, pools, ridCounter, handles, cacheVars, txt, warm>>

\* e.text(c)
textOp(e, c) ==
  /\ e \in handles
  /\ Len(heap[e].children) < MaxKids
  /\ heap' = [heap EXCEPT ![e] = text(@, c)]
  /\ last' = Op("text", e, FALSE, e, c)
  /\ UNCHANGED <<nElts, pools, docs, ridCounter, handles, cacheVars, txt, warm, used>>

\* e.append(c) with c a string
appendTextOp(e, c) ==
  /\ e \in handles
  /\ Len(heap[e].children) < MaxKids
  /\ heap' = [heap EXCEPT ![e] = append(@, Txt(c))]
  /\ last' = Op("appendText", e, FALSE, e, c)
  /\ UNCHANGED <<nElts, pools, docs, ridCounter, handles, cacheVars, txt, warm, used>>

\* e.attr(key, value), also attribute(key, value)
attrOp(e, key, value) ==
  /\ Within("mut", MaxMut)
  /\ e \in handles
  /\ heap' = [heap EXCEPT ![e] = attr(@, key, value)]
  /\ last' = Op("attr", e, FALSE, e, value)
  /\ UNCHANGED <<nElts, pools, docs, ridCounter, handles, cacheVars, txt, warm>>

\* e.state(v): this._stateStore is the store of the Element's Document
stateOp(e, v) ==
  /\ Within("mut", MaxMut)
  /\ e \in handles
  /\ ridCounter < MaxRid
  /\ LET r == state(heap[e], v, ridCounter)
     IN /\ heap' = [heap EXCEPT ![e] = r.el]
        /\ ridCounter' = r.rid
        /\ docs' = [docs EXCEPT ![heap[e].document].stateStore =
                      AttrSet(@, AttrGet(r.el.attrs, ID), v)]
        /\ last' = Op("state", e, FALSE, e, v)
  /\ UNCHANGED <<nElts, pools, handles, cacheVars, txt, warm>>

\* e.id(v)
idOp(e, v) ==
  /\ Within("mut", MaxMut)
  /\ e \in handles
  /\ ridCounter < MaxRid
  /\ LET r == id(heap[e], v, ridCounter)
     IN /\ heap' = [heap EXCEPT ![e] = r.el]
        /\ ridCounter' = r.rid
        /\ last' = Op("id", e, FALSE, e, v)
  /\ UNCHANGED <<nElts, pools, docs, handles, cacheVars, txt, warm>>

\* the call with a callable is within the model's bound; a call whose callable
\* the validation refuses is counted
WithinCalls(fn, limit) ==
  /\ used.call < used.calls
  /\ used' = [used EXCEPT !.call = @ + 1,
                          !.rejected = @ + (IF sanitizeFunctionSource(fn, limit).threw
                                            THEN 1 ELSE 0)]

\* what a method with a callable did to the Element e: r is its result
Called(name, e, r, fn) ==
  /\ heap' = [heap EXCEPT ![e] = r.el]
  /\ ridCounter' = r.rid
  /\ last' = Op(name, e, r.threw, e, fn)
  /\ UNCHANGED <<nElts, pools, docs, handles, cacheVars, txt, warm>>

\* e.computed(fn)
computedOp(e, fn) ==
  /\ WithinCalls(fn, maxComputedFnSize)
  /\ e \in handles
  /\ ridCounter < MaxRid
  /\ Called("computed", e, computed(heap[e], fn, ridCounter), fn)

\* e.on('click', fn)
onOp(e, fn) ==
  /\ WithinCalls(fn, maxEventFnSize)
  /\ e \in handles
  /\ ridCounter < MaxRid
  /\ Called("on", e, on(heap[e], <<"click">>, fn, ridCounter), fn)

\* e.bindState(t, 'click', fn) with t an Element the application holds, or null
bindStateOp(e, t, fn) ==
  /\ WithinCalls(fn, maxEventFnSize)
  /\ e \in handles
  /\ t \in handles \cup {0}
  /\ ridCounter + 1 < MaxRid
  /\ LET r == bindState(heap, e, t, <<"click">>, fn, ridCounter)
     IN /\ heap' = r.h
        /\ ridCounter' = r.rid
        /\ last' = Op("bindState", e, r.threw, e, fn)
  /\ UNCHANGED <<nElts, pools, docs, handles, cacheVars, txt, warm>>

\* e.bind('k', templateFn)
bindOp(e, fn) ==
  /\ WithinCalls(fn, maxComputedFnSize)
  /\ e \in handles
  /\ ridCounter < MaxRid
  /\ Called("bind", e, bind(heap[e], <<"k">>, fn, ridCounter), fn)

\* d.state(key, value): this._globalState[key] = value
docStateOp(d, key, value) ==
  /\ Within("doc", MaxDocOps)
  /\ docs' = [docs EXCEPT ![d].globalState = AttrSet(@, key, value)]
  /\ last' = Op("docState", d, FALSE, d, value)
  /\ UNCHANGED <<heap, nElts, pools, ridCounter, handles, cacheVars, txt, warm>>

\* d.oncreate(fn): throws for a value that is not a function; a function that
\* fails the validation is dropped in the catch block
oncreateOp(d, fn) ==
  /\ Within("doc", MaxDocOps)
  /\ docs' = [docs EXCEPT ![d].oncreateCallbacks =
                IF sanitizeFunctionSource(fn, maxEventFnSize).threw THEN @ ELSE Append(@, fn)]
  /\ last' = Op("oncreate", d, ~fn.isFn, d, fn)
  /\ UNCHANGED <<heap, nElts, pools, ridCounter, handles, cacheVars, txt, warm>>

\* d.render()
renderOp(d) ==
  /\ Within("clear", MaxClear)
  /\ LET Rendered(R) ==
           /\ heap' = R.W.heap
           /\ pools' = R.W.pool
           /\ handles' = R.W.handles
           /\ docs' = [docs EXCEPT ![d] = R.doc]
           /\ responseCache' = R.cache
           /\ last' = [Op("render", d, R.threw, 0, <<>>) EXCEPT
                         !.out = R.result, !.ctx = R.ctx, !.pre = Pre(d), !.log = R.W.log,
                         !.hit = R.hit]
     IN Rendered(render(World, responseCache, docs[d]))
  /\ UNCHANGED <<nElts, ridCounter, inFlightCache, comps, nComps, reqs, txt, warm>>

\* d.clear()
clearOp(d) ==
  LET W1 == clearWorld(World, docs[d])
  IN /\ Within("clear", MaxClear)
     /\ heap' = W1.heap
     /\ pools' = W1.pool
     /\ handles' = W1.handles
     /\ docs' = [docs EXCEPT ![d] = IF W1.ok THEN clearDoc(@) ELSE @]
     /\ last' = [Op("clear", d, ~W1.ok, 0, <<>>) EXCEPT !.pre = Pre(d), !.log = W1.log]
     /\ UNCHANGED <<nElts, ridCounter, cacheVars, txt, warm>>

(***************************************************************************)
(* The pool specification: Documents are built, rendered and cleared.      *)
(***************************************************************************)
\* no warmupCache call has been made.  calls and html are not program state:
\* how often each route's builder was invoked, and the string render returned
NoWarmup == [st |-> "idle", routes |-> <<>>, i |-> 0, results |-> <<>>,
             calls |-> <<>>, html |-> <<>>]

\* the state after the module is loaded; calls is the number of builder calls
\* with a callable the specification allows
InitState(calls) ==
  /\ heap = [e \in Elts |-> Element(Null)]
  /\ nElts = 0
  /\ pools = <<>>
  /\ ridCounter = 0
  /\ responseCache = <<>>
  /\ inFlightCache = <<>>
  /\ comps = <<>>
  /\ nComps = 0
  /\ reqs = <<>>
  /\ handles = {}
  /\ warm = NoWarmup
  /\ used = [create |-> 0, append |-> 0, mut |-> 0, clear |-> 0, call |-> 0,
             rejected |-> 0, cache |-> 0, doc |-> 0, json |-> 0, calls |-> calls]
  /\ last = Op("init", 0, FALSE, 0, <<>>)

InitCommon == InitState(MaxCalls)

InitPool ==
  /\ InitCommon
  /\ txt = <<>>
  /\ docs = [d \in Docs |-> IF d = 1 THEN Document(FALSE, Null) ELSE Document(TRUE, K1)]

NextPool ==
  \/ \E d \in Docs, tag \in {DIV, INPUT} : createElement(d, tag)
  \/ \E e \in Elts, tag \in {DIV, INPUT} : child(e, tag)
  \/ \E e \in Elts, c \in Elts : appendElement(e, c)
  \/ \E d \in Docs, c \in Elts : useFragment(d, c)
  \/ \E e \in Elts : attrOp(e, TITLE, <<"x">>)
  \/ \E e \in Elts : stateOp(e, <<"1">>)
  \/ \E d \in Docs : renderOp(d)
  \/ \E d \in Docs : clearOp(d)

SpecPool == InitPool /\ [][NextPool]_vars

(***************************************************************************)
(* Properties of the pool specification                                    *)
(***************************************************************************)
\* the Elements reachable from the given ones through children, on the heap h
\* the Elements that are children of the Element e on the heap h
KidsOf(h, e) == {c.ref : c \in {k \in Range(h[e].children) : k.kind = "element"}}

RECURSIVE ReachFrom(_, _)
ReachFrom(h, from) ==
  LET N == from \cup UNION {KidsOf(h, e) : e \in from}
  IN IF N = from THEN from ELSE ReachFrom(h, N)

\* the Element holds no attributes, no children and no captured state
Cleared(el) ==
  /\ el.attrs = <<>> /\ el.children = <<>> /\ el.events = <<>>
  /\ el.stateBindings = <<>> /\ el.cssText = <<>>
  /\ el.state = Null /\ el.computed = NoFn

\* the last operation was a Document.clear() that returned, called directly
\* or at the end of a render()
ClearReturned == last.op \in {"clear", "render"} /\ ~last.threw

\* the length of the free list when the log entry j was written
PoolLenAt(j) ==
  Len(last.pre.pool) + Cardinality({i \in 1..j - 1 : last.log[i].ev = "push"})

Pushed(e) == \E j \in 1..Len(last.log) : last.log[j] = Ev("push", e)

\* C3 (as stated): an Element handed out by createElement or child carries
\* only the new tag and the new owning Document: no attributes, children,
\* events or bindings, empty cssText, null state, null computed, hydrate false.
C3_HandedOutBlank ==
  (last.op \in {"createElement", "child"} /\ ~last.threw) =>
     LET el == heap[last.ret]
     IN /\ el.attrs = <<>> /\ el.events = <<>> /\ el.stateBindings = <<>>
        /\ el.cssText = <<>> /\ el.state = Null /\ el.computed = NoFn
        /\ ~el.hydrate
        /\ el.tag = toKebab(last.arg)
        /\ (last.op = "createElement" => el.children = <<>>)
        /\ (last.op = "child" /\ last.ret # last.e => el.children = <<>>)

\* C4 (as stated): after Document.clear() returned, no Element that was
\* reachable from the body holds attributes, children or captured state.
C4_AllReachableCleared ==
  ClearReturned =>
     \A e \in ReachFrom(last.pre.heap, Range(last.pre.doc.body)) : Cleared(heap[e])

\* C4 (amended): a recycle that begins with the free list at poolSize returns
\* at once and changes nothing; one that begins below poolSize first calls
\* recycle on every child Element and only then clears the Element's own
\* fields and pushes it.  After Document.clear() returned, every Element
\* reachable from the body that some recycle pushed holds no attributes,
\* children or captured state, and every other one is as it was.
C4_DepthFirstBelowCapacity ==
  ClearReturned =>
     /\ \A b \in Range(last.pre.doc.body) :
           \E j \in 1..Len(last.log) : last.log[j] = Ev("call", b)
     /\ \A j \in 1..Len(last.log) :
           LET e == last.log[j].e
           IN /\ last.log[j].ev = "call" /\ PoolLenAt(j) >= poolSize
                   => last.log[j + 1] = Ev("skip", e)
              /\ last.log[j].ev = "call" /\ PoolLenAt(j) < poolSize
                   => \E k \in j + 1..Len(last.log) : last.log[k] = Ev("push", e)
              /\ last.log[j].ev = "skip" => PoolLenAt(j) >= poolSize
              /\ (/\ last.log[j].ev = "push"
                  /\ \A i \in 1..j - 1 : last.log[i] # Ev("push", e))
                   => \A c \in Range(last.pre.heap[e].children) :
                         c.kind = "element" =>
                            \E i \in 1..j - 1 : last.log[i] = Ev("call", c.ref)
     /\ \A e \in ReachFrom(last.pre.heap, Range(last.pre.doc.body)) :
           IF Pushed(e) THEN Cleared(heap[e]) ELSE heap[e] = last.pre.heap[e]

\* a clear returned that pushed a parent and, before it, its child that held
\* an attribute
C4_Witness ==
  /\ ClearReturned
  /\ \E e \in Range(last.pre.doc.body) :
        \E c \in Range(last.pre.heap[e].children) :
           /\ c.kind = "element" /\ c.ref # e
           /\ last.pre.heap[c.ref].attrs # <<>>
           /\ Pushed(e) /\ Pushed(c.ref)

\* C17 (as stated): the element free list never holds more than poolSize
\* Elements: a recycle that starts or continues with the list at capacity adds
\* nothing to it, whatever the shape of the tree being recycled.
C17_PoolWithinCapacity ==
  /\ Len(pools) <= poolSize
  /\ ClearReturned =>
        \A j \in 1..Len(last.log) :
           last.log[j].ev = "push" => PoolLenAt(j) < poolSize

\* the tag names the specification lists as void
C6_Void ==
  { <<"a","r","e","a">>, <<"b","a","s","e">>, <<"b","r">>, <<"c","o","l">>,
    <<"e","m","b","e","d">>, <<"h","r">>, <<"i","m","g">>, <<"i","n","p","u","t">>,
    <<"l","i","n","k">>, <<"m","e","t","a">>, <<"p","a","r","a","m">>,
    <<"s","o","u","r","c","e">>, <<"t","r","a","c","k">>, <<"w","b","r">> }

\* the text has a closing tag of a void element at position i
ClosesVoidAt(out, i) ==
  /\ out[i] = "<" /\ out[i + 1] = "/"
  /\ \E t \in C6_Void :
        /\ i + 2 + Len(t) <= Len(out)
        /\ SubSeq(out, i + 2, i + 1 + Len(t)) = t
        /\ out[i + 2 + Len(t)] = ">"

\* C6: an Element whose tag is a void element renders as its opening tag with
\* its attributes and nothing else, whatever children it holds; a rendered
\* page holds no closing tag of a void element.
C6_VoidOnlyOpeningTag ==
  /\ \A e \in 1..nElts :
        heap[e].tag \in C6_Void =>
           LET r == renderNode(heap, Elt(e), EmptyCtx, MaxElts + 1)
           IN /\ r.ok
              /\ r.html = <<"<">> \o heap[e].tag \o renderAttrs(heap[e].attrs) \o <<">">>
  /\ (last.op = "render" /\ ~last.threw /\ ~last.hit) =>
        /\ \A i \in 1..Len(last.out) - 1 : ~ClosesVoidAt(last.out, i)
        /\ (\A b \in Range(last.pre.doc.body) : last.pre.heap[b].tag \in C6_Void) =>
              last.out = pageHtml(last.pre.doc,
                           [html |-> Flatten([i \in 1..Len(last.pre.doc.body) |->
                                       LET el == last.pre.heap[last.pre.doc.body[i]]
                                       IN <<"<">> \o el.tag \o renderAttrs(el.attrs) \o <<">">>]),
                            ctx |-> last.ctx])

\* a page was rendered from a void Element that held an attribute and a child
C6_Witness ==
  /\ last.op = "render" /\ ~last.threw /\ ~last.hit
  /\ \E b \in Range(last.pre.doc.body) :
        /\ last.pre.heap[b].tag \in C6_Void
        /\ last.pre.heap[b].children # <<>>
        /\ last.pre.heap[b].attrs # <<>>


(***************************************************************************)
(* The escaping specification: one string, txt, is given as text and as an *)
(* attribute value to Elements that are then rendered.                     *)
(***************************************************************************)
Chars == {"<", ">", "&", "\"", "'", "/", "a"}

\* the strings over Chars of length n
RECURSIVE Strings(_)
Strings(n) ==
  IF n = 0 THEN {<<>>}
  ELSE Strings(n - 1) \cup {Append(str, c) : str \in Strings(n - 1), c \in Chars}

\* the text '<b>hi</b>'
BoldHi == <<"<", "b", ">", "h", "i", "<", "/", "b", ">">>

InitEsc ==
  /\ InitCommon
  /\ txt \in Strings(MaxLen) \cup {BoldHi}
  /\ docs = [d \in Docs |-> Document(FALSE, Null)]

NextEsc ==
  \/ createElement(1, DIV)
  \/ \E e \in Elts : textOp(e, txt)
  \/ \E e \in Elts : appendTextOp(e, txt)
  \/ \E e \in Elts : attrOp(e, TITLE, txt)
  \/ renderOp(1)

SpecEsc == InitEsc /\ [][NextEsc]_vars

\* the entity the specification gives for a character
C5_Entity(c) ==
  CASE c = "&"  -> <<"&", "a", "m", "p", ";">>
    [] c = "<"  -> <<"&", "l", "t", ";">>
    [] c = ">"  -> <<"&", "g", "t", ";">>
    [] c = "\"" -> <<"&", "q", "u", "o", "t", ";">>
    [] c = "'"  -> <<"&", "#", "x", "2", "7", ";">>
    [] c = "/"  -> <<"&", "#", "x", "2", "F", ";">>

\* str with each character of the set special replaced by its entity and
\* every other character unchanged
C5_Escaped(str, special) ==
  Flatten([i \in 1..Len(str) |->
             IF str[i] \in special THEN C5_Entity(str[i]) ELSE <<str[i]>>])

\* the page render returns for the Elements of the body, each a div with the
\* title and the text children given, when escaping replaces the set special
C5_Page(special) ==
  LET pre == last.pre
      one(e) == <<"<">> \o DIV
                \o (IF pre.heap[e].attrs # <<>>
                    THEN <<" ">> \o TITLE \o <<"=", "\"">> \o C5_Escaped(txt, special) \o <<"\"">>
                    ELSE <<>>)
                \o <<">">>
                \o Flatten([i \in 1..Len(pre.heap[e].children) |-> C5_Escaped(txt, special)])
                \o <<"<", "/">> \o DIV \o <<">">>
  IN pageHtml(pre.doc, [html |-> Flatten([i \in 1..Len(pre.doc.body) |-> one(pre.doc.body[i])]),
                        ctx |-> EmptyCtx])

C5_Holds(special) ==
  /\ \A e \in 1..nElts : \A c \in Range(heap[e].children) :
        c.kind = "text" /\ c.text = C5_Escaped(txt, special)
  /\ (last.op = "render" /\ ~last.threw) => last.out = C5_Page(special)

C11_Case ==
  /\ txt = BoldHi
  /\ last.op = "render" /\ ~last.threw
  /\ Len(last.pre.doc.body) = 1
  /\ LET el == last.pre.heap[last.pre.doc.body[1]]
     IN el.tag = DIV /\ el.attrs = <<>> /\ Len(el.children) = 1

\* the page whose body is the markup given
C11_PageOf(markup) == pageHtml(last.pre.doc, [html |-> markup, ctx |-> EmptyCtx])

FnOk     == [isFn |-> TRUE, src |-> <<"()=>1">>, len |-> 5]
FnMid    == [isFn |-> TRUE, src |-> <<"#mid">>, len |-> maxEventFnSize + 1]
FnBig    == [isFn |-> TRUE, src |-> <<"#big">>, len |-> maxComputedFnSize + 1]
FnScript == [isFn |-> TRUE, src |-> <<"()=>'", "<script", "'">>, len |-> 13]
NotFn    == [isFn |-> FALSE, src |-> <<"#notfn">>, len |-> 0]
Fns == {FnOk, FnMid, FnBig, FnScript, NotFn}

InitBuilder ==
  /\ InitCommon
  /\ txt = <<>>
  /\ docs = [d \in Docs |-> Document(FALSE, Null)]

NextBuilder ==
  \/ createElement(1, DIV)
  \/ \E e \in Elts, v \in {Null, <<"u">>} : attrOp(e, ID, v)
  \/ \E e \in Elts, v \in {Null, <<"u">>} : idOp(e, v)
  \/ \E e \in Elts : stateOp(e, <<"1">>)
  \/ \E e \in Elts, fn \in Fns : computedOp(e, fn)
  \/ \E e \in Elts, fn \in Fns : onOp(e, fn)
  \/ \E e \in Elts, t \in Elts \cup {0}, fn \in Fns : bindStateOp(e, t, fn)
  \/ \E e \in Elts, fn \in Fns : bindOp(e, fn)
  \/ docStateOp(1, <<"k">>, <<"1">>)
  \/ \E fn \in Fns : oncreateOp(1, fn)
  \/ renderOp(1)

SpecBuilder == InitBuilder /\ [][NextBuilder]_vars

\* the Element holds a state value, a computed callable, an event entry or a
\* state binding
Hydrates(el) ==
  el.state # Null \/ el.computed # NoFn \/ el.events # <<>> \/ el.stateBindings # <<>>

\* C9 (as stated): every Element that holds a state value, a computed
\* callable, an event entry or a state binding has a non-null id attribute,
\* after every builder call and in what render collects.
C9_HydratedHasId ==
  /\ \A e \in handles : Hydrates(heap[e]) => AttrGet(heap[e].attrs, ID) # Null
  /\ (last.op = "render" /\ ~last.threw) =>
        /\ \A b \in Range(last.pre.doc.body) :
              Hydrates(last.pre.heap[b]) => AttrGet(last.pre.heap[b].attrs, ID) # Null
        /\ \A c \in Range(last.ctx.states) \cup Range(last.ctx.computed) : c.id # Null

\* the callable fails the validation of a category whose limit is given
C10_Invalid(fn, limit) ==
  \/ ~fn.isFn
  \/ fn.len > limit
  \/ \E i \in 1..Len(fn.src) : fn.src[i] \in {"<script", "</script>"}

\* C10: computed, on and bindState given a callable that fails validation do
\* not raise and return the same Element; no Element holds such a callable,
\* and a rendered page has no computed entry and no event listener for one.
C10_RejectedCallableOmitted ==
  /\ (last.op = "computed" /\ C10_Invalid(last.arg, maxComputedFnSize))
        => ~last.threw /\ last.ret = last.e
  /\ (last.op \in {"on", "bindState"} /\ C10_Invalid(last.arg, maxEventFnSize))
        => ~last.threw /\ last.ret = last.e
  /\ \A e \in 1..nElts :
        /\ heap[e].computed # NoFn => ~C10_Invalid(heap[e].computed, maxComputedFnSize)
        /\ \A ev \in Range(heap[e].events) : ~C10_Invalid(ev.fn, maxEventFnSize)
  /\ (last.op = "render" /\ ~last.threw) =>
        /\ \A ev \in Range(last.ctx.events) : ~C10_Invalid(ev.fn, maxEventFnSize)
        /\ \A c \in Range(last.ctx.computed) :
              \A fn \in Fns : C10_Invalid(fn, maxComputedFnSize) => c.fn # fn.src
        /\ \A fn \in Fns :
              (C10_Invalid(fn, maxComputedFnSize) /\ C10_Invalid(fn, maxEventFnSize))
                 => \A i \in 1..Len(fn.src) : fn.src[i] \notin Range(last.out)

\* a page with an event listener was rendered after a call whose callable
\* failed validation
C10_Witness ==
  /\ last.op = "render" /\ ~last.threw
  /\ used.rejected > 0
  /\ last.ctx.events # <<>>

\* a page was rendered by a full render whose context ended with no states,
\* no computed entries, no state bindings and no events
C12_EmptyContext ==
  /\ last.op = "render" /\ ~last.threw /\ ~last.hit
  /\ last.ctx.states = <<>> /\ last.ctx.computed = <<>>
  /\ last.ctx.stateBindings = <<>> /\ last.ctx.events = <<>>

\* the compiler returned the empty string and the page has no script
C12_NoScript ==
  /\ compileClient(last.ctx, last.pre.doc.oncreateCallbacks, last.pre.doc.globalState) = <<>>
  /\ "<script>" \notin Range(last.out)

\* C12 (as stated): the hydration compiler returns the empty string, and the
\* page has no hydration script, whenever the render context holds no states,
\* no computed entries, no state bindings and no events.
C12_EmptyContextNoScript == C12_EmptyContext => C12_NoScript

\* C12 (amended): the same, when moreover the Document has no oncreate
\* callback and no global state.
C12_NothingToHydrateNoScript ==
  (/\ C12_EmptyContext
   /\ last.pre.doc.oncreateCallbacks = <<>>
   /\ last.pre.doc.globalState = <<>>) => C12_NoScript

\* a page was rendered from a body with an Element, with nothing to hydrate,
\* after a builder call had been refused its callable
C12_Witness ==
  /\ C12_EmptyContext
  /\ last.pre.doc.oncreateCallbacks = <<>>
  /\ last.pre.doc.globalState = <<>>
  /\ last.pre.doc.body # <<>>
  /\ used.rejected > 0



(***************************************************************************)
(* The hydration specification: Elements of one Document are given state,  *)
(* valid callables, bindings and event handlers whose source holds the     *)
(* placeholder, and the Document is rendered.                              *)
(***************************************************************************)
\* function(){ f('__STATE_ID__', '__STATE_ID__') }
FnPlaceholder ==
  [isFn |-> TRUE, src |-> <<"()=>f('", PLACEHOLDER, "','", PLACEHOLDER, "')">>, len |-> 40]

\* an id the application chooses: a plain one and one with a dollar pattern
PlainId == <<"u">>
DollarId == <<"$", "&">>

InitHydrate ==
  /\ InitState(MaxHydrateCalls)
  /\ txt = <<>>
  /\ docs = [d \in Docs |-> Document(FALSE, Null)]

NextHydrate ==
  \/ nElts < MaxHydrated /\ createElement(1, DIV)
  \/ \E e \in Elts, v \in {PlainId, DollarId} : idOp(e, v)
  \/ \E e \in Elts : stateOp(e, <<"1">>)
  \/ \E e \in Elts : computedOp(e, FnOk)
  \/ \E e \in Elts : bindOp(e, FnOk)
  \/ \E e \in Elts, fn \in {FnOk, FnPlaceholder} : onOp(e, fn)
  \/ \E e \in Elts, t \in Elts : bindStateOp(e, t, FnPlaceholder)
  \/ oncreateOp(1, FnOk)
  \/ renderOp(1)

SpecHydrate == InitHydrate /\ [][NextHydrate]_vars

\* the places of a token in the page
C13_At(token) == {i \in 1..Len(last.out) : last.out[i] = token}

\* the statements of the branch of the dispatch that starts after the token
\* open and ends before the next token close
C13_Branch(open, close) ==
  LET from == CHOOSE i \in C13_At(open) : TRUE
      to == CHOOSE i \in C13_At(close) : i > from /\ \A k \in C13_At(close) : k > from => i <= k
  IN SubSeq(last.out, from + 1, to - 1)

C13_Deferred ==
  C13_Branch("document.addEventListener(\"DOMContentLoaded\",function(){", "});")
C13_Immediate == C13_Branch("}else{", "}")

\* the phases in the order claimed, and the phases the context asks for
C13_Phases == <<"initStates();", "initComputed();", "initBindings();", "initEvents();">>
C13_Wanted ==
  <<last.ctx.states # <<>>, last.ctx.computed # <<>>,
    last.ctx.stateBindings # <<>>, last.ctx.events # <<>>>>

\* the branch calls each phase the context asks for exactly once, calls no
\* other, and calls them in the order of C13_Phases
C13_InOrder(branch) ==
  /\ \A k \in 1..4 :
        Cardinality({i \in 1..Len(branch) : branch[i] = C13_Phases[k]})
          = (IF C13_Wanted[k] THEN 1 ELSE 0)
  /\ \A i, j \in 1..Len(branch) : \A k, l \in 1..4 :
        (branch[i] = C13_Phases[k] /\ branch[j] = C13_Phases[l] /\ k < l) => i < j

\* a full render gave a page with a hydration script
C13_Script == last.op = "render" /\ ~last.threw /\ ~last.hit /\ "<script>" \in Range(last.out)

\* C13: in the script of a rendered page there is one dispatch on readyState;
\* its deferred branch and its immediate branch each call the state phase,
\* the computed phase, the binding phase and the event phase in this order,
\* each exactly once when the context has entries for it, and no phase is
\* called anywhere else in the script.
C13_PhasesInOrderOnce ==
  C13_Script =>
    /\ Cardinality(C13_At("if(document.readyState===\"loading\"){")) = 1
    /\ Cardinality(C13_At("}else{")) = 1
    /\ C13_InOrder(C13_Deferred)
    /\ C13_InOrder(C13_Immediate)
    /\ \A k \in 1..4 : Cardinality(C13_At(C13_Phases[k])) = (IF C13_Wanted[k] THEN 2 ELSE 0)

\* a page was rendered whose context had a state, a computed callable, a
\* state binding and an event
C13_Witness ==
  /\ C13_Script
  /\ \A k \in 1..4 : C13_Wanted[k]

\* the source the claim gives for the listener of an event entry: with a
\* target id each placeholder token is the id, without one the source is kept
C14_Source(e) ==
  IF e.targetId # Null
  THEN Flatten([i \in 1..Len(e.fn.src) |->
                  IF e.fn.src[i] = PLACEHOLDER THEN e.targetId ELSE <<e.fn.src[i]>>])
  ELSE e.fn.src

\* the statements that attach the listeners of the entries, in their order
C14_Listeners(events) ==
  Flatten([i \in 1..Len(events) |->
    S("(function(){var el=getById(\"") \o events[i].id \o S("\");")
    \o S("if(el)try{el.addEventListener(\"") \o events[i].event \o S("\",")
    \o C14_Source(events[i])
    \o S(");}catch(err){console.error(\"Event handler error:\",err);}")
    \o S("})();")])

\* the page holds the statements, one after the other
C14_Emitted(statements) ==
  \E i \in 1..Len(last.out) :
     /\ i + Len(statements) - 1 <= Len(last.out)
     /\ SubSeq(last.out, i, i + Len(statements) - 1) = statements

\* C14 (as stated): the script of a rendered page attaches, for every event
\* entry, a listener whose source is the callable's source with every
\* placeholder token replaced by the target's id when the entry came from
\* bindState, and the callable's source unchanged when it came from on().
C14_PlaceholderReplaced ==
  (C13_Script /\ last.ctx.events # <<>>) => C14_Emitted(C14_Listeners(last.ctx.events))

\* the same for the pages none of whose target ids holds a dollar sign
C14_PlaceholderReplacedPlainIds ==
  (/\ C13_Script /\ last.ctx.events # <<>>
   /\ \A i \in 1..Len(last.ctx.events) :
         last.ctx.events[i].targetId # Null => "$" \notin Range(last.ctx.events[i].targetId))
    => C14_Emitted(C14_Listeners(last.ctx.events))

(***************************************************************************)
(* The cache specification: get, set, delete and clear on the response     *)
(* cache.  last.log lists the keys in the order they were used (a get that *)
(* found the key, or a set); last.pre is the cache before the operation.   *)
(***************************************************************************)
A == <<"a">>
AB == <<"a", "b">>
B == <<"b">>
CacheKeys == {A, AB, B}
V1 == <<"v", "1">>
V2 == <<"v", "2">>

\* a direct cache operation is within the model's bound
WithinOps == Len(last.log) + used.cache < MaxOps

cacheGet(key) ==
  LET got == LRUCache_get(responseCache, key)
  IN /\ WithinOps
     /\ responseCache' = got.cache
     /\ last' = [Op("get", 0, FALSE, got.value, key) EXCEPT
                   !.pre = responseCache,
                   !.log = IF key \in Keys(responseCache) THEN Append(last.log, key)
                           ELSE last.log]
     /\ used' = IF key \in Keys(responseCache) THEN used ELSE [used EXCEPT !.cache = @ + 1]
     /\ UNCHANGED <<poolVars, inFlightCache, comps, nComps, reqs, txt, warm>>

cacheSet(key, value) ==
  /\ WithinOps
  /\ responseCache' = LRUCache_set(responseCache, cacheLimit, key, value)
  /\ last' = [Op("set", 0, FALSE, value, key) EXCEPT
                !.pre = responseCache, !.log = Append(last.log, key)]
  /\ UNCHANGED <<poolVars, inFlightCache, comps, nComps, reqs, txt, warm, used>>

cacheDelete(key) ==
  /\ WithinOps
  /\ responseCache' = LRUCache_delete(responseCache, key)
  /\ last' = [Op("delete", 0, FALSE, 0, key) EXCEPT !.pre = responseCache, !.log = last.log]
  /\ used' = [used EXCEPT !.cache = @ + 1]
  /\ UNCHANGED <<poolVars, inFlightCache, comps, nComps, reqs, txt, warm>>

cacheClear ==
  /\ WithinOps
  /\ responseCache' = LRUCache_clear(responseCache)
  /\ last' = [Op("clear", 0, FALSE, 0, <<>>) EXCEPT !.pre = responseCache, !.log = last.log]
  /\ used' = [used EXCEPT !.cache = @ + 1]
  /\ UNCHANGED <<poolVars, inFlightCache, comps, nComps, reqs, txt, warm>>

InitLRU ==
  /\ InitCommon
  /\ txt = <<>>
  /\ docs = [d \in Docs |-> Document(FALSE, Null)]

NextLRU ==
  \/ \E key \in CacheKeys : cacheGet(key)
  \/ \E key \in CacheKeys, value \in {V1, V2} : cacheSet(key, value)
  \/ \E key \in CacheKeys : cacheDelete(key)
  \/ cacheClear

SpecLRU == InitLRU /\ [][NextLRU]_vars

\* the position of the last use of the key in the log of uses (0: never used)
LastUse(log, key) ==
  IF \E i \in 1..Len(log) : log[i] = key
  THEN CHOOSE i \in 1..Len(log) : log[i] = key /\ \A j \in i + 1..Len(log) : log[j] # key
  ELSE 0

\* the key of the cache that was used least recently
LeastRecent(cache, log) ==
  CHOOSE k \in Keys(cache) : \A k2 \in Keys(cache) : LastUse(log, k) <= LastUse(log, k2)

\* C7: the cache lists its keys from the least to the most recently used, a
\* get of a present key and a set counting as a use; get returns the value
\* last set; a set of an absent key at capacity evicts the least recently used
\* key and no other; a set below capacity or of a present key evicts nothing.
C7_LeastRecentlyUsedEvicted ==
  LET pre == last.pre
      key == last.arg
      before == SubSeq(last.log, 1, Len(last.log) - 1)
  IN /\ \A i, j \in 1..Len(responseCache) :
           i < j => LastUse(last.log, responseCache[i].key)
                      < LastUse(last.log, responseCache[j].key)
     /\ Len(responseCache) <= cacheLimit
     /\ (last.op = "get" /\ key \in Keys(pre)) =>
           /\ last.ret = ValueOf(pre, key)
           /\ responseCache[Len(responseCache)] = [key |-> key, value |-> last.ret]
           /\ Keys(responseCache) = Keys(pre)
     /\ (last.op = "get" /\ key \notin Keys(pre)) =>
           last.ret = Null /\ responseCache = pre
     /\ last.op = "set" =>
           /\ responseCache[Len(responseCache)] = [key |-> key, value |-> last.ret]
           /\ \A k \in Keys(responseCache) \ {key} :
                 k \in Keys(pre) /\ ValueOf(responseCache, k) = ValueOf(pre, k)
           /\ IF key \notin Keys(pre) /\ Len(pre) >= cacheLimit
              THEN Keys(responseCache) = (Keys(pre) \ {LeastRecent(pre, before)}) \cup {key}
              ELSE Keys(responseCache) = Keys(pre) \cup {key}

\* a set at capacity evicted a key that was inserted after a key that stays,
\* the key that stays having been read since
C7_Witness ==
  /\ last.op = "set"
  /\ last.arg \notin Keys(last.pre)
  /\ Len(last.pre) >= cacheLimit
  /\ \E k \in Keys(responseCache) \ {last.arg} :
        \E i, j, r \in 1..Len(last.log) :
           /\ i < j /\ j < r
           /\ last.log[i] = k /\ last.log[r] = k
           /\ last.log[j] = LeastRecent(last.pre, SubSeq(last.log, 1, Len(last.log) - 1))
           /\ last.log[j] \notin Keys(responseCache)


(***************************************************************************)
(* The attachment specification: Elements are created from Documents and   *)
(* from Elements and appended to Elements, and a Document is rendered.     *)
(***************************************************************************)
InitAttach ==
  /\ InitCommon
  /\ txt = <<>>
  /\ docs = [d \in Docs |-> Document(FALSE, Null)]

NextAttach ==
  \/ \E d \in Docs : createElement(d, DIV)
  \/ \E e \in Elts : child(e, DIV)
  \/ \E e \in Elts, c \in Elts : appendElement(e, c)
  \/ \E d \in Docs : renderOp(d)

SpecAttach == InitAttach /\ [][NextAttach]_vars

\* the entries of the bodies of the Documents ds, and of the children lists
\* of the heap h, that are the Element e
C16_InBody(ds, e) ==
  {p \in Docs \X (1..MaxBody) : p[2] <= Len(ds[p[1]].body) /\ ds[p[1]].body[p[2]] = e}
C16_InChildren(h, e) ==
  {p \in Elts \X (1..MaxKids) :
     p[2] <= Len(h[p[1]].children) /\ h[p[1]].children[p[2]] = Elt(e)}

\* the opening tags in the page
C16_Openings ==
  {i \in 1..Len(last.out) - 1 : last.out[i] = "<" /\ last.out[i + 1] # "/"}

\* C16 (as stated): after create, child and append calls every Element is one
\* entry of one body or one entry of one children list, never both and never
\* twice, and a render emits no more opening tags than there are Elements
\* under the body.
C16_AttachedOnce ==
  /\ used.clear = 0 =>
        \A e \in 1..nElts :
           Cardinality(C16_InBody(docs, e)) + Cardinality(C16_InChildren(heap, e)) <= 1
  /\ (last.op = "render" /\ ~last.threw) =>
        Cardinality(C16_Openings)
          <= Cardinality(ReachFrom(last.pre.heap, Range(last.pre.doc.body)))

\* the first half of C16 alone
C16_AttachedOnceBeforeRender ==
  used.clear = 0 =>
     \A e \in 1..nElts :
        Cardinality(C16_InBody(docs, e)) + Cardinality(C16_InChildren(heap, e)) <= 1

\* the second half of C16 alone
C16_EmittedOnce ==
  (last.op = "render" /\ ~last.threw) =>
     Cardinality(C16_Openings)
       <= Cardinality(ReachFrom(last.pre.heap, Range(last.pre.doc.body)))

(***************************************************************************)
(* The render specification: two Documents, the second with the response   *)
(* cache on under the key K1, are built and rendered; the application may  *)
(* have put a page under K1 before.                                        *)
(***************************************************************************)
InitRender ==
  /\ InitCommon
  /\ txt = <<>>
  /\ docs = [d \in Docs |-> IF d = 1 THEN Document(FALSE, Null) ELSE Document(TRUE, K1)]

NextRender ==
  \/ \E d \in Docs : nElts < MaxRendered /\ createElement(d, DIV)
  \/ \E e \in Elts : child(e, DIV)
  \/ \E e \in Elts : stateOp(e, <<"1">>)
  \/ \E d \in Docs : docStateOp(d, <<"k">>, <<"1">>)
  \/ \E d \in Docs : oncreateOp(d, FnOk)
  \/ cacheSet(K1, V1)
  \/ \E d \in Docs : renderOp(d)

SpecRender == InitRender /\ [][NextRender]_vars

\* C15: when render() returns, on the cache-hit path and on the full-render
\* path, the Document's body is empty, its state store has no keys, recycle
\* was called on every Element that was in its body, and its title, global
\* state, oncreate callbacks and cache flags are as before the call.
C15_RenderLeavesDocumentEmpty ==
  (last.op = "render" /\ ~last.threw) =>
    LET before == last.pre.doc
        after == docs[last.e]
    IN /\ after.body = <<>>
       /\ after.stateStore = <<>>
       /\ \A b \in Range(before.body) :
             \E j \in 1..Len(last.log) : last.log[j] = Ev("call", b)
       /\ after.title = before.title
       /\ after.globalState = before.globalState
       /\ after.oncreateCallbacks = before.oncreateCallbacks
       /\ after.useResponseCache = before.useResponseCache
       /\ after.cacheKey = before.cacheKey

\* a render returned the cached page for a Document that had an Element in
\* its body, a key in its state store and a global state
C15_Witness ==
  /\ last.op = "render" /\ ~last.threw /\ last.hit
  /\ last.out = V1
  /\ last.pre.doc.body # <<>>
  /\ last.pre.doc.stateStore # <<>>
  /\ last.pre.doc.globalState # <<>>

(***************************************************************************)
(* The cached renderer: the handler createCachedRenderer returns, the      *)
(* promise it registers in inFlightCache, and clearCache.  A promise       *)
(* (computation) is created, its builder is invoked, the builder settles   *)
(* and the Document is rendered, the reactions then/catch and finally run, *)
(* and each awaiting request resumes: requests and clearCache calls may    *)
(* come between any two of these steps.  Requests carry a non-empty key.   *)
(***************************************************************************)
\* inFlightCache is a Map from keys to promises, each promise known by its
\* index in comps; 0 stands for undefined
inFlightGet(map, key) == IF key \in Keys(map) THEN ValueOf(map, key) ELSE 0

inFlightSet(map, key, c) ==
  IF key \in Keys(map)
  THEN [i \in 1..Len(map) |-> IF map[i].key = key THEN [key |-> key, value |-> c] ELSE map[i]]
  ELSE Append(map, [key |-> key, value |-> c])

inFlightDelete(map, key) == Remove(map, key)

\* the Document the builder returns in the computation c: a page of its own
builderDoc(c) == [Document(FALSE, Null) EXCEPT !.title = <<"p", toString36[c]>>]

Pending(c) == comps[c].st \in {"created", "building"}
Settled(c) == comps[c].st \in {"resolved", "rejected", "stored", "done"}

\* the async handler up to `await promise`, for a request with the given key
handleRequest(key) ==
  LET got == LRUCache_get(responseCache, key)
      c == inFlightGet(inFlightCache, key)
      new == Len(comps) + 1
      r == Len(reqs) + 1
      pend == {i \in 1..Len(comps) : comps[i].key = key /\ Pending(i)}
      retry == \E i \in 1..Len(comps) :
                  /\ comps[i].key = key /\ comps[i].st = "done" /\ ~comps[i].ok
                  /\ \A j \in i + 1..Len(comps) : comps[j].key # key
      \* pend and retry are not program state: the computations for the key
      \* that had not settled when the request arrived, and whether the last
      \* computation for the key had failed and left the registry
      req == [key |-> key, st |-> "awaiting", comp |-> c, body |-> <<>>,
              created |-> FALSE, pend |-> pend, retry |-> retry]
  IN /\ Len(reqs) < MaxReqs
     /\ IF ~Falsy(got.value)
        THEN /\ responseCache' = got.cache
             /\ reqs' = Append(reqs, [req EXCEPT !.st = "sent", !.comp = 0,
                                                 !.body = got.value])
             /\ UNCHANGED <<inFlightCache, comps, nComps>>
        ELSE IF c # 0
        THEN /\ reqs' = Append(reqs, req)
             /\ UNCHANGED <<responseCache, inFlightCache, comps, nComps>>
        ELSE /\ Len(comps) < MaxComps
             /\ comps' = Append(comps, [key |-> key, st |-> "created", ok |-> FALSE,
                                        html |-> <<>>])
             /\ nComps' = new
             /\ inFlightCache' = inFlightSet(inFlightCache, key, new)
             /\ reqs' = Append(reqs, [req EXCEPT !.comp = new, !.created = TRUE])
             /\ UNCHANGED responseCache
     /\ UNCHANGED <<poolVars, txt, warm, used, last>>

\* .then(() => builderFn(req)): the builder is called
invokeBuilder(c) ==
  /\ c <= Len(comps)
  /\ comps[c].st = "created"
  /\ comps' = [comps EXCEPT ![c].st = "building"]
  /\ UNCHANGED <<poolVars, responseCache, inFlightCache, nComps, reqs, txt, warm, used, last>>

\* the builder settles and .then((doc) => ...) runs: a Document is rendered
\* with _useResponseCache and _cacheKey set; anything else rejects the promise
builderSettles(c, outcome) ==
  /\ c <= Len(comps)
  /\ comps[c].st = "building"
  /\ IF outcome = "document"
     THEN LET doc == [builderDoc(c) EXCEPT !.useResponseCache = TRUE,
                                            !.cacheKey = comps[c].key]
              R == render(World, responseCache, doc)
          IN /\ responseCache' = R.cache
             /\ comps' = [comps EXCEPT ![c].st = "resolved", ![c].ok = TRUE,
                                       ![c].html = R.result]
     ELSE /\ comps' = [comps EXCEPT ![c].st = "rejected"]
          /\ UNCHANGED responseCache
  /\ UNCHANGED <<poolVars, inFlightCache, nComps, reqs, txt, warm, used, last>>

\* promise.then((html) => responseCache.set(key, html)).catch(...)
storeResult(c) ==
  /\ c <= Len(comps)
  /\ comps[c].st \in {"resolved", "rejected"}
  /\ responseCache' = IF comps[c].ok
                      THEN LRUCache_set(responseCache, cacheLimit, comps[c].key, comps[c].html)
                      ELSE responseCache
  /\ comps' = [comps EXCEPT ![c].st = "stored"]
  /\ UNCHANGED <<poolVars, inFlightCache, nComps, reqs, txt, warm, used, last>>

\* .finally(() => inFlightCache.delete(key))
removeInFlight(c) ==
  /\ c <= Len(comps)
  /\ comps[c].st = "stored"
  /\ inFlightCache' = inFlightDelete(inFlightCache, comps[c].key)
  /\ comps' = [comps EXCEPT ![c].st = "done"]
  /\ UNCHANGED <<poolVars, responseCache, nComps, reqs, txt, warm, used, last>>

\* const html = await promise; res.send(html), or the catch block of the handler
sendResponse(r) ==
  /\ r <= Len(reqs)
  /\ reqs[r].st = "awaiting"
  /\ Settled(reqs[r].comp)
  /\ reqs' = [reqs EXCEPT ![r].st = IF comps[reqs[r].comp].ok THEN "sent" ELSE "failed",
                          ![r].body = comps[reqs[r].comp].html]
  /\ UNCHANGED <<poolVars, responseCache, inFlightCache, comps, nComps, txt, warm, used, last>>

\* a clearCache that deletes the keys that begin with the pattern
clearCacheFromStart(pattern) ==
  LET startsWith(k) == Len(pattern) <= Len(k) /\ SubSeq(k, 1, Len(pattern)) = pattern
  IN IF Falsy(pattern)
     THEN [responseCache |-> <<>>, inFlightCache |-> <<>>]
     ELSE [responseCache |-> SelectSeq(responseCache, LAMBDA en : ~startsWith(en.key)),
           inFlightCache |-> SelectSeq(inFlightCache, LAMBDA en : ~startsWith(en.key))]

\* clearCache(pattern): both maps after the call
clearCache(pattern) ==
  IF Falsy(pattern)
  THEN [responseCache |-> LRUCache_clear(responseCache), inFlightCache |-> <<>>]
  ELSE LET keysToDelete == {k \in Keys(responseCache) \cup Keys(inFlightCache) :
                              Includes(k, pattern)}
       IN [responseCache |-> SelectSeq(responseCache, LAMBDA en : en.key \notin keysToDelete),
           inFlightCache |-> SelectSeq(inFlightCache, LAMBDA en : en.key \notin keysToDelete)]

clearCacheOp(pattern) ==
  /\ Within("clear", MaxClear)
  /\ responseCache' = clearCache(pattern).responseCache
  /\ inFlightCache' = clearCache(pattern).inFlightCache
  /\ UNCHANGED <<poolVars, comps, nComps, reqs, txt, warm, last>>

InitCache ==
  /\ InitCommon
  /\ txt = <<>>
  /\ docs = [d \in Docs |-> Document(FALSE, Null)]

Outcomes == {"document", "throws", "other"}

NextFlight ==
  \/ \E key \in CacheKeys : handleRequest(key)
  \/ \E c \in 1..MaxComps : invokeBuilder(c)
  \/ \E c \in 1..MaxComps, outcome \in Outcomes : builderSettles(c, outcome)
  \/ \E c \in 1..MaxComps : storeResult(c)
  \/ \E c \in 1..MaxComps : removeInFlight(c)
  \/ \E r \in 1..MaxReqs : sendResponse(r)

\* the cached renderer alone; the microtasks of a promise are always run
SpecFlight ==
  /\ InitCache
  /\ [][NextFlight]_vars
  /\ \A c \in 1..MaxComps :
        WF_vars(invokeBuilder(c)) /\ WF_vars(storeResult(c)) /\ WF_vars(removeInFlight(c))
  /\ \A r \in 1..MaxReqs : WF_vars(sendResponse(r))

NextCache ==
  \/ NextFlight
  \/ \E pattern \in {Null, A, B} : clearCacheOp(pattern)

\* the cached renderer and clearCache
SpecCache == InitCache /\ [][NextCache]_vars


(***************************************************************************)
(* Properties of the cached renderer                                       *)
(***************************************************************************)
\* the promise c is the one registered in inFlightCache for its key
Registered(c) == \E i \in 1..Len(inFlightCache) : inFlightCache[i].value = c

\* the builder of c was called and the promise has not settled
InProgress(c) == comps[c].st = "building"

\* the promise c was rejected
Failed(c) == Settled(c) /\ ~comps[c].ok

\* C1 (as stated): for every key, at most one computation is in progress.
C1_OneComputationPerKey ==
  \A c1, c2 \in 1..Len(comps) :
     (c1 # c2 /\ InProgress(c1) /\ InProgress(c2)) => comps[c1].key # comps[c2].key

\* C2 (as stated): a request that finds its key absent from the response
\* cache while a computation for the key has not settled awaits that
\* computation and starts none, so the builder is invoked once for all of
\* them; every request answered from a computation gets that computation's
\* HTML.
C2_SingleFlight ==
  /\ \A r \in 1..Len(reqs) :
        (reqs[r].comp # 0 /\ reqs[r].pend # {}) =>
           reqs[r].pend = {reqs[r].comp} /\ ~reqs[r].created
  /\ \A r \in 1..Len(reqs) :
        (reqs[r].comp # 0 /\ reqs[r].st = "sent") =>
           comps[reqs[r].comp].ok /\ reqs[r].body = comps[reqs[r].comp].html
  /\ \A r1, r2 \in 1..Len(reqs) :
        (/\ reqs[r1].key = reqs[r2].key /\ reqs[r1].comp # 0 /\ reqs[r2].comp # 0
         /\ reqs[r1].comp \in reqs[r2].pend
         /\ reqs[r1].st = "sent" /\ reqs[r2].st = "sent")
           => reqs[r1].body = reqs[r2].body

\* C8 (as stated, its part about states): once the finally reaction of a
\* computation ran, the registry does not hold the computation; after a
\* computation failed, the response cache holds nothing for its key until a
\* later computation for the key succeeds; a request that arrives when the
\* last computation for its key has failed and left the registry starts a
\* new computation.
C8_FailureLeavesNothing ==
  /\ \A c \in 1..Len(comps) : comps[c].st = "done" => ~Registered(c)
  /\ \A c \in 1..Len(comps) :
        (Failed(c) /\ \A c2 \in c + 1..Len(comps) :
                         comps[c2].key = comps[c].key => ~comps[c2].ok)
           => comps[c].key \notin Keys(responseCache)
  /\ \A r \in 1..Len(reqs) : reqs[r].retry => reqs[r].created

\* The registry entry of a settled computation is eventually removed, and the
\* builder of a computation that was created is eventually invoked.  Both
\* hold of the cached renderer whose microtasks always run, with and without
\* clearCache.
InFlightEntryEventuallyRemoved ==
  \A c \in 1..MaxComps :
     /\ (c <= Len(comps) /\ Settled(c)) ~> ~Registered(c)
     /\ (c <= Len(comps) /\ comps[c].st = "created")
           ~> (c <= Len(comps) /\ comps[c].st # "created")

(***************************************************************************)
(* warmupCache(routes).  The call runs to its first `await`, and resumes   *)
(* when the awaited builder has settled; a builder that throws before it   *)
(* returns is caught without suspending the loop.                          *)
(***************************************************************************)
\* a route descriptor: builder is "none" when the property is missing, and
\* otherwise says what calling it does
NotObject == [object |-> FALSE, key |-> Null, builder |-> "none"]
Route(key, builder) == [object |-> TRUE, key |-> key, builder |-> builder]

Failure(key, error) == [key |-> key, success |-> FALSE, error |-> error, size |-> 0]
Success(key, html) == [key |-> key, success |-> TRUE, error |-> <<>>, size |-> Len(html)]

\* results.push(result); html is the string the route's render returned
Push(wm, result, html) ==
  [wm EXCEPT !.results = Append(@, result), !.html = Append(@, html)]

RECURSIVE warmupLoop(_, _)
\* for (const route of routes) from the route i up to the next await
warmupLoop(wm, i) ==
  IF i > Len(wm.routes) THEN [wm EXCEPT !.st = "returned", !.i = i]
  ELSE LET route == wm.routes[i]
           called == [wm EXCEPT !.calls[i] = @ + 1]
       IN IF ~route.object
          THEN warmupLoop(Push(wm, Failure(Null, S("Invalid route object")), <<>>), i + 1)
          ELSE IF Falsy(route.key) \/ route.builder = "none"
          THEN warmupLoop(Push(wm, Failure(route.key, S("Missing key or builder")), <<>>), i + 1)
          ELSE IF route.builder = "throws"
          THEN warmupLoop(Push(called, Failure(route.key, S("err.message")), <<>>), i + 1)
          ELSE [called EXCEPT !.st = "awaiting", !.i = i]

\* a render that leaves the cache flags of the Document as the builder set them
warmupRenderUncached(W, cache, doc, key) == render(W, cache, doc)

\* doc._useResponseCache = true; doc._cacheKey = key; doc.render()
warmupRender(W, cache, doc, key) ==
  render(W, cache, [doc EXCEPT !.useResponseCache = TRUE, !.cacheKey = key])

\* warmupCache(routes) up to its first await, or to its throw when the
\* argument is not an array
warmupCacheOp(isArray, routes) ==
  /\ warm.st = "idle"
  /\ IF ~isArray
     THEN /\ last' = Op("warmupCache", 0, TRUE, 0, <<>>)
          /\ UNCHANGED warm
     ELSE /\ warm' = warmupLoop([NoWarmup EXCEPT !.routes = routes,
                                                 !.calls = [i \in 1..Len(routes) |-> 0]], 1)
          /\ last' = Op("warmupCache", 0, FALSE, 0, <<>>)
  /\ UNCHANGED <<poolVars, cacheVars, txt, used>>

\* the awaited builder has settled: the rest of the try block, and the loop
\* up to the next await
warmupResume ==
  /\ warm.st = "awaiting"
  /\ LET route == warm.routes[warm.i]
         Rendered(R) ==
           /\ heap' = R.W.heap /\ pools' = R.W.pool /\ handles' = R.W.handles
           /\ nElts' = R.W.nElts
           /\ responseCache' = R.cache
           /\ warm' = warmupLoop(IF R.threw
                                 THEN Push(warm, Failure(route.key, S("err.message")), <<>>)
                                 ELSE Push(warm, Success(route.key, R.result), R.result),
                                 warm.i + 1)
     IN IF route.builder = "document"
        THEN Rendered(warmupRender(World, responseCache, builderDoc(warm.i), route.key))
        ELSE /\ warm' = warmupLoop(
                          Push(warm,
                               Failure(route.key,
                                       IF route.builder = "rejects" THEN S("err.message")
                                       ELSE S("Builder must return a Document instance")),
                               <<>>),
                          warm.i + 1)
             /\ UNCHANGED <<heap, pools, handles, nElts, responseCache>>
  /\ last' = Op("warmupResume", 0, FALSE, 0, <<>>)
  /\ UNCHANGED <<docs, ridCounter, inFlightCache, comps, nComps, reqs, txt, used>>

Builders == {"none", "document", "throws", "rejects", "other"}

RouteKinds ==
  {NotObject, Route(Null, "document")}
     \cup {Route(A, b) : b \in Builders}
     \cup {Route(k, "document") : k \in CacheKeys}

RouteLists == UNION {[1..n -> RouteKinds] : n \in 0..MaxRoutes}

InitWarm ==
  /\ InitCommon
  /\ txt = <<>>
  /\ docs = [d \in Docs |-> Document(FALSE, Null)]

\* a page may already be cached under a key; the cache is read once the
\* warmup has returned
NextWarm ==
  \/ warm.st = "idle" /\ cacheSet(A, V1)
  \/ \E routes \in RouteLists : warmupCacheOp(TRUE, routes)
  \/ last.op = "init" /\ warmupCacheOp(FALSE, <<>>)
  \/ warmupResume
  \/ \E key \in CacheKeys : warm.st = "returned" /\ last.op # "get" /\ cacheGet(key)

SpecWarm == InitWarm /\ [][NextWarm]_vars

\* the route descriptor yields no page: it is malformed, or its builder
\* throws, rejects or returns something that is not a Document
C18_Fails(route) ==
  \/ ~route.object \/ Falsy(route.key)
  \/ route.builder \in {"none", "throws", "rejects", "other"}

\* one result per route, in input order; success exactly for the routes whose
\* builder returns a Document; each builder invoked at most once
C18_OnePerRoute ==
  /\ Len(warm.results) = Len(warm.routes)
  /\ \A i \in 1..Len(warm.routes) :
        LET route == warm.routes[i]
        IN /\ route.object => warm.results[i].key = route.key
           /\ warm.results[i].success = ~C18_Fails(route)
           /\ warm.calls[i] = IF route.object /\ ~Falsy(route.key) /\ route.builder # "none"
                               THEN 1 ELSE 0

\* the page of the route i is in the response cache under the route's key,
\* and a get of the key returned it
C18_Cached(i) ==
  LET key == warm.routes[i].key
  IN /\ key \in Keys(responseCache)
     /\ ValueOf(responseCache, key) = warm.html[i]
     /\ Len(warm.html[i]) > 0
     /\ (last.op = "get" /\ last.arg = key) => last.ret = warm.html[i]

\* the distinct other keys that successful routes after the route i stored
C18_LaterKeys(i) ==
  {warm.routes[j].key : j \in {k \in i + 1..Len(warm.routes) : warm.results[k].success}}
     \ {warm.routes[i].key}

RECURSIVE serializeElement(_, _, _)
\* serializeElement(el) for a child entry on the heap h; a property that is
\* left out of the object is Null (state, computed) or empty (stateBindings,
\* events); ok = FALSE when the recursion never returns
serializeElement(h, n, fuel) ==
  IF n.kind = "text"
  THEN [ok |-> TRUE, node |-> [type |-> "text", content |-> unescapeHtml(n.text)]]
  ELSE IF fuel = 0 THEN [ok |-> FALSE, node |-> [type |-> "text", content |-> <<>>]]
  ELSE LET el == h[n.ref]
           kids == [i \in 1..Len(el.children) |->
                      serializeElement(h, el.children[i], fuel - 1)]
       IN [ok |-> \A i \in 1..Len(kids) : kids[i].ok,
           node |-> [type |-> "element", tag |-> el.tag, attrs |-> el.attrs,
                     children |-> [i \in 1..Len(kids) |-> kids[i].node],
                     cssText |-> el.cssText, hydrate |-> el.hydrate,
                     state |-> el.state,
                     stateBindings |-> el.stateBindings,
                     events |-> [i \in 1..Len(el.events) |->
                                   [event |-> el.events[i].event, id |-> el.events[i].id,
                                    targetId |-> el.events[i].targetId,
                                    fn |-> el.events[i].fn.src]],
                     computed |-> IF el.computed # NoFn THEN el.computed.src ELSE Null]]

\* toJSON() of doc on the heap h
toJSON(h, doc) ==
  LET body == [i \in 1..Len(doc.body) |-> serializeElement(h, Elt(doc.body[i]), MaxElts + 1)]
  IN [ok |-> \A i \in 1..Len(body) : body[i].ok,
      json |-> [version |-> S("1.0"), title |-> doc.title,
                globalState |-> doc.globalState,
                oncreateCallbacks |-> [i \in 1..Len(doc.oncreateCallbacks) |->
                                         doc.oncreateCallbacks[i].src],
                body |-> [i \in 1..Len(body) |-> body[i].node]]]

RECURSIVE assignAttrs(_, _, _)
\* for (const key in node.attrs) el.attrs[key] = node.attrs[key]
assignAttrs(attrs, from, i) ==
  IF i > Len(from) THEN attrs
  ELSE assignAttrs(AttrSet(attrs, from[i].k, from[i].v), from, i + 1)

RECURSIVE elementCount(_)
\* how many Elements deserializeElement takes from getPooled for the nodes
elementCount(nodes) ==
  IF nodes = <<>> THEN 0
  ELSE (IF Head(nodes).type = "text" THEN 0 ELSE 1 + elementCount(Head(nodes).children))
       + elementCount(Tail(nodes))

RECURSIVE deserializeElement(_, _, _)
RECURSIVE deserializeChildren(_, _, _, _, _)
\* deserializeElement(node) for the Document d that is being restored: X holds
\* the world, the Document so far, and in entry what the call returned
deserializeElement(X, node, d) ==
  IF node.type = "text" THEN [X EXCEPT !.entry = Txt(node.content)]
  ELSE LET W1 == getPooled(X.W, node.tag, d)
           e == W1.item
           el == [W1.heap[e] EXCEPT
                    !.attrs = assignAttrs(@, node.attrs, 1),
                    !.cssText = IF node.cssText # <<>> THEN node.cssText ELSE @,
                    !.state = IF node.state # Null THEN node.state ELSE @,
                    !.stateBindings = IF node.stateBindings # <<>>
                                      THEN node.stateBindings ELSE @,
                    !.hydrate = node.hydrate]
           store == IF node.state # Null /\ ~Falsy(AttrGet(el.attrs, ID))
                    THEN AttrSet(X.doc.stateStore, AttrGet(el.attrs, ID), node.state)
                    ELSE X.doc.stateStore
           X1 == [W |-> [W1 EXCEPT !.heap[e] = el],
                  doc |-> [X.doc EXCEPT !.stateStore = store],
                  entry |-> Elt(e)]
       IN [deserializeChildren(X1, e, node.children, 1, d) EXCEPT !.entry = Elt(e)]

\* for (const child of node.children) el.children.push(deserializeElement(child))
deserializeChildren(X, e, children, i, d) ==
  IF i > Len(children) THEN X
  ELSE LET X1 == deserializeElement(X, children[i], d)
       IN deserializeChildren([X1 EXCEPT !.W.heap[e].children = Append(@, X1.entry)],
                              e, children, i + 1, d)

RECURSIVE restoreBody(_, _, _, _)
\* for (const node of json.body) doc.body.push(deserializeElement(node))
restoreBody(X, body, i, d) ==
  IF i > Len(body) THEN X
  ELSE LET X1 == deserializeElement(X, body[i], d)
       IN restoreBody([X1 EXCEPT !.doc.body = Append(@, X1.entry.ref)], body, i + 1, d)

\* Document.fromJSON(json) for an object toJSON returned; d names the new Document
fromJSON(W, json, d) ==
  restoreBody([W |-> W,
               doc |-> [Document(FALSE, Null) EXCEPT
                          !.title = IF Falsy(json.title) THEN @ ELSE json.title,
                          !.globalState = json.globalState],
               entry |-> Txt(<<>>)],
              json.body, 1, d)

\* docs[2] = Document.fromJSON(docs[1].toJSON())
fromJSONOp ==
  /\ Within("json", MaxRestores)
  /\ LET J == toJSON(heap, docs[1])
         Restored(X) ==
           /\ heap' = X.W.heap /\ pools' = X.W.pool /\ nElts' = X.W.nElts
           /\ handles' = X.W.handles
           /\ docs' = [docs EXCEPT ![2] = X.doc]
     IN /\ J.ok
        /\ elementCount(J.json.body) <= Len(pools) + MaxElts - nElts
        /\ Restored(fromJSON(World, J.json, 2))
  /\ last' = [Op("fromJSON", 2, FALSE, 2, <<>>) EXCEPT !.pre = Pre(1)]
  /\ UNCHANGED <<ridCounter, cacheVars, txt, warm>>

InitJSON ==
  /\ InitState(MaxHydrateCalls)
  /\ txt = <<>>
  /\ docs = [d \in Docs |-> Document(FALSE, Null)]

\* a Document is built, then serialized and restored, and the restored
\* Document is rendered
NextJSON ==
  \/ used.json = 0 /\ nElts < MaxSerialized /\ createElement(1, DIV)
  \/ \E e \in Elts : used.json = 0 /\ textOp(e, <<"<">>)
  \/ \E e \in Elts : used.json = 0 /\ stateOp(e, <<"1">>)
  \/ \E e \in Elts : used.json = 0 /\ computedOp(e, FnOk)
  \/ \E e \in Elts : used.json = 0 /\ onOp(e, FnOk)
  \/ \E e \in Elts : used.json = 0 /\ bindOp(e, FnOk)
  \/ used.json = 0 /\ oncreateOp(1, FnOk)
  \/ fromJSONOp
  \/ used.json > 0 /\ renderOp(2)

SpecJSON == InitJSON /\ [][NextJSON]_vars

\* the sources of the callables the first Document captured
C19_Captured ==
  LET es == ReachFrom(heap, Range(docs[1].body))
  IN {heap[e].computed.src : e \in {x \in es : heap[x].computed # NoFn}}
       \cup UNION {{ev.fn.src : ev \in Range(heap[e].events)} : e \in es}
       \cup UNION {{b.templateFn : b \in Range(heap[e].stateBindings)} : e \in es}
       \cup {fn.src : fn \in Range(docs[1].oncreateCallbacks)}

\* C19 (as stated): the Document fromJSON(toJSON(d)) returns restores no
\* captured callable of d: none of its Nodes has a computed callable or an
\* event entry, it has no oncreate callback, and the page rendered from it
\* holds no source of a callable that d captured.
C19_NoCallableRestored ==
  /\ last.op = "fromJSON" =>
        /\ \A e \in ReachFrom(heap, Range(docs[2].body)) :
              heap[e].computed = NoFn /\ heap[e].events = <<>>
        /\ docs[2].oncreateCallbacks = <<>>
  /\ (last.op = "render" /\ last.e = 2 /\ ~last.threw) =>
        \A src \in C19_Captured : Range(src) \cap Range(last.out) = {}

\* the part of C19 about the restored Nodes and the oncreate callbacks
C19_NoCallableOnNodes ==
  last.op = "fromJSON" =>
     /\ \A e \in ReachFrom(heap, Range(docs[2].body)) :
           heap[e].computed = NoFn /\ heap[e].events = <<>>
     /\ docs[2].oncreateCallbacks = <<>>

(***************************************************************************)
(* Tags: Elements are created with valid and invalid tags, and rendered.   *)
(***************************************************************************)
\* a valid tag, and the invalid ones: undefined, '' and a number
Tags == {DIV, Null, <<>>, NonString}

NextTag ==
  \/ \E d \in Docs, tag \in Tags : createElement(d, tag)
  \/ \E e \in Elts, tag \in Tags : child(e, tag)
  \/ \E d \in Docs : renderOp(d)

SpecTag == InitAttach /\ [][NextTag]_vars

\* the tag is missing, empty or not a string
C20_Invalid(tag) == Falsy(tag) \/ tag = NonString

\* C20 (as stated): every attempt to create a Node with a missing, empty or
\* non-string tag, through the Document (createElement, create, child) or
\* through an Element (child, create), raises at once and attaches no Node; no
\* Node with an empty tag is ever rendered.
C20_InvalidTagRaises ==
  /\ (last.op \in {"createElement", "child"} /\ C20_Invalid(last.arg)) =>
        last.threw /\ last.ret = 0
  /\ \A d \in Docs : \A e \in ReachFrom(heap, Range(docs[d].body)) : heap[e].tag # <<>>
  /\ (last.op = "render" /\ ~last.threw) =>
        \A i \in 1..Len(last.out) - 1 : ~(last.out[i] = "<" /\ last.out[i + 1] = ">")

\* the part of C20 about the Document's methods
C20_DocumentRejectsInvalidTag ==
  (last.op = "createElement" /\ C20_Invalid(last.arg)) => last.threw /\ last.ret = 0

(***************************************************************************)
(* Generated ids: Elements of both Documents get ids from the generator,   *)
(* are rendered, recycled and handed out again.                            *)
(***************************************************************************)
InitIds ==
  /\ InitCommon
  /\ txt = <<>>
  /\ docs = [d \in Docs |-> Document(FALSE, Null)]

NextIds ==
  \/ \E d \in Docs : createElement(d, DIV)
  \/ \E e \in Elts : idOp(e, Null)
  \/ \E e \in Elts : stateOp(e, <<"1">>)
  \/ \E e \in Elts : computedOp(e, FnOk)
  \/ \E e \in Elts : onOp(e, FnOk)
  \/ \E e \in Elts : bindOp(e, FnOk)
  \/ \E e \in Elts, t \in Elts : bindStateOp(e, t, FnOk)
  \/ \E d \in Docs : renderOp(d)

SpecIds == InitIds /\ [][NextIds]_vars

\* the ids the generator can issue within the bound
C21_Generated == {ridGen(n) : n \in 1..MaxRid}

\* the Elements that hold, after the step, a generated id they did not hold before
C21_Fresh ==
  {e \in Elts : /\ AttrGet(heap'[e].attrs, ID) # AttrGet(heap[e].attrs, ID)
                /\ AttrGet(heap'[e].attrs, ID) \in C21_Generated}

\* C21: the ids id() generates are pairwise distinct over the whole process.
\* The counter never goes back, distinct counter values give distinct ids, and
\* every id that newly appears on an Element in a step was made from a counter
\* value reached in that step, two Elements never from the same one: so no
\* generated id is issued twice, across Documents, renders and pool reuse.
C21_GeneratedIdsDistinct ==
  [][/\ ridCounter' >= ridCounter
     /\ \A m \in 1..MaxRid, n \in 1..MaxRid : m # n => ridGen(m) # ridGen(n)
     /\ \A e \in C21_Fresh :
           \E n \in ridCounter + 1..ridCounter' : AttrGet(heap'[e].attrs, ID) = ridGen(n)
     /\ \A e \in C21_Fresh, f \in C21_Fresh :
           e # f => AttrGet(heap'[e].attrs, ID) # AttrGet(heap'[f].attrs, ID)]_vars

\* one instance was constructed, it got an id, was rendered and recycled,
\* was handed out again, and now holds the latest of several generated ids
C21_Witness ==
  /\ nElts = 1 /\ used.create >= 2 /\ used.clear > 0 /\ ridCounter >= 2
  /\ 1 \in handles /\ pools = <<>>
  /\ AttrGet(heap[1].attrs, ID) = ridGen(ridCounter)

(***************************************************************************)
(* clearCache(pattern) on a response cache and an in-flight registry that  *)
(* direct sets and requests have filled.                                   *)
(***************************************************************************)
\* clearCache(pattern), recording the two maps it started from
clearCacheCall(pattern) ==
  /\ Within("clear", MaxClear)
  /\ responseCache' = clearCache(pattern).responseCache
  /\ inFlightCache' = clearCache(pattern).inFlightCache
  /\ last' = [Op("clearCache", 0, FALSE, 0, pattern) EXCEPT
                !.pre = [responseCache |-> responseCache, inFlightCache |-> inFlightCache]]
  /\ UNCHANGED <<poolVars, comps, nComps, reqs, txt, warm>>

\* the maps are filled first, then cleared
NextClear ==
  \/ \E key \in CacheKeys, value \in {V1, V2} : used.clear = 0 /\ cacheSet(key, value)
  \/ \E key \in CacheKeys : used.clear = 0 /\ handleRequest(key)
  \/ \E pattern \in {Null, <<>>, A, B, AB} : clearCacheCall(pattern)

SpecClear == InitCache /\ [][NextClear]_vars

\* the place of the key in the cache: 0 when it is absent
C22_Place(cache, key) ==
  IF key \in Keys(cache) THEN CHOOSE i \in 1..Len(cache) : cache[i].key = key ELSE 0

\* C22: clearCache(pattern) with a non-empty pattern removes from the response
\* cache exactly the keys that contain the pattern as a substring, and every
\* other entry keeps its value and its place in the recency order;
\* clearCache() without a pattern leaves the response cache and the in-flight
\* registry empty.
C22_ClearCacheByPattern ==
  [][used'.clear # used.clear =>
       IF Falsy(last'.arg)
       THEN responseCache' = <<>> /\ inFlightCache' = <<>>
       ELSE /\ Keys(responseCache') = {k \in Keys(responseCache) : ~Includes(k, last'.arg)}
            /\ \A k \in Keys(responseCache') :
                  ValueOf(responseCache', k) = ValueOf(responseCache, k)
            /\ \A k \in Keys(responseCache'), l \in Keys(responseCache') :
                  C22_Place(responseCache, k) < C22_Place(responseCache, l)
                     <=> C22_Place(responseCache', k) < C22_Place(responseCache', l)
            /\ Len(responseCache') = Cardinality(Keys(responseCache'))]_vars

\* a clearCache with a pattern removed a key that holds the pattern after its
\* first character and kept an older entry; or one without a pattern emptied
\* a response cache and an in-flight registry that both held entries
C22_Witness ==
  /\ last.op = "clearCache"
  /\ \/ /\ last.arg = B
        /\ Keys(last.pre.responseCache) = {A, AB}
        /\ Keys(responseCache) = {A}
     \/ /\ last.arg = Null
        /\ last.pre.responseCache # <<>> /\ last.pre.inFlightCache # <<>>
        /\ responseCache = <<>> /\ inFlightCache = <<>>

(***************************************************************************)
(* Further properties of the pool specification                            *)
(***************************************************************************)
\* C23 (as stated): no Element instance occurs more than once in the element
\* free list, so two getPooled calls with no recycle in between never return
\* the same instance; this holds after any sequence of create, append,
\* render and clear.
C23_FreeListHoldsEachOnce ==
  \A i \in 1..Len(pools), j \in 1..Len(pools) : i # j => pools[i] # pools[j]

(***************************************************************************)
(* Further properties of the cached renderer                               *)
(***************************************************************************)
\* the computation c has not stored its page yet and is no longer in the
\* in-flight registry: a clearCache removed its entry while it was running
C24_ClearedInFlight(c) ==
  comps[c].st \in {"created", "building", "resolved"} /\ ~Registered(c)

\* C24 (as stated): when a render for the key k is in flight and a clearCache
\* that covers k is called before it finishes, the response cache holds no
\* entry for k after that render completes: no step of such a render puts k
\* into the response cache.
C24_ClearedRenderStoresNothing ==
  [][\A c \in 1..Len(comps) :
        (C24_ClearedInFlight(c) /\ comps'[c].st # comps[c].st)
           => comps[c].key \notin Keys(responseCache') \ Keys(responseCache)]_vars

\* the render of the computation c completed successfully
C25_Rendered(c) == comps[c].ok /\ comps[c].st \in {"resolved", "stored", "done"}

\* no eviction can have happened: the keys requested so far fit in the cache
C25_NoEviction == Cardinality({comps[c].key : c \in 1..Len(comps)}) <= cacheLimit

\* C25: for a successful cached render of k the page is in the response cache
\* no later than the in-flight entry for k is removed: with no eviction and no
\* clearCache, in every state in which a render for k has completed
\* successfully the response cache holds k, so that a new request for k never
\* finds neither a cached value nor an in-flight entry.
C25_CachedBeforeUnregistered ==
  C25_NoEviction =>
     \A c \in 1..Len(comps) :
        C25_Rendered(c) =>
           /\ comps[c].key \in Keys(responseCache)
           /\ \A r \in 1..Len(reqs) :
                 (reqs[r].key = comps[c].key /\ reqs[r].created) => reqs[r].comp <= c

\* a render completed and left the registry, and a later request for its key
\* was answered from the response cache with its page
C25_Witness ==
  \E c \in 1..Len(comps), r \in 1..Len(reqs) :
     /\ C25_Rendered(c) /\ comps[c].st = "done" /\ ~Registered(c)
     /\ comps[c].key \notin Keys(inFlightCache)
     /\ reqs[r].key = comps[c].key /\ reqs[r].comp = 0 /\ reqs[r].st = "sent"
     /\ reqs[r].body = comps[c].html

(***************************************************************************)
(* Further properties of the attachment specification                      *)
(***************************************************************************)
\* C26 (as stated): Document.render(), with the recycle pass it runs, comes to
\* an end for every tree built with create, child and append, also when an
\* Element was appended to itself or to one of its descendants: the recursion
\* of renderNode and of recycle is never without end.
C26_RenderTerminates == last.op = "render" => ~last.threw

(***************************************************************************)
(* Further properties of the hydration specification                       *)
(***************************************************************************)
\* C27 (as stated): every event entry and state-binding entry that reaches
\* the render context carries as its id the id attribute with which its Node
\* is rendered in the same page, for any order of on, bindState, bind and id
\* calls on the Node.
C27_EntryIdIsRenderedId ==
  (last.op = "render" /\ ~last.threw /\ ~last.hit) =>
     \A e \in ReachFrom(last.pre.heap, Range(last.pre.doc.body)) :
        LET el == last.pre.heap[e]
        IN /\ \A ev \in Range(el.events) :
                 ev \in Range(last.ctx.events) /\ ev.id = AttrGet(el.attrs, ID)
           /\ \A b \in Range(el.stateBindings) :
                 b \in Range(last.ctx.stateBindings) /\ b.id = AttrGet(el.attrs, ID)

(***************************************************************************)
(* Further properties of the serialization specification                   *)
(***************************************************************************)
\* the first Document was built without callables and without state
C28_DataOnly == used.call = 0 /\ used.doc = 0 /\ used.mut = 0

\* C28 (as stated): for a Document d built only from elements, attributes and
\* text children, Document.fromJSON(d.toJSON()).render() yields the body HTML
\* d.render() yields; text that held <, >, &, " or ' is still escaped in
\* the page rendered again.
C28_RoundTripKeepsBody ==
  (last.op = "render" /\ last.e = 2 /\ ~last.threw /\ C28_DataOnly) =>
     renderBody(last.pre.heap, last.pre.doc.body).html = renderBody(heap, docs[1].body).html

(***************************************************************************)
(* Further properties of the builder specification                         *)
(***************************************************************************)
\* the step is a computed, on, bindState or bind call whose callable failed
\* the validation; bind does not validate a value that is not a function
C29_ValidationFailed ==
  /\ used'.rejected = used.rejected + 1
  /\ last'.op \in {"computed", "on", "bindState", "bind"}
  /\ ~(last'.op = "bind" /\ ~last'.arg.isFn)

\* C29 (as stated): when the validation of the callable fails in computed,
\* on, bindState or bind, the Node is left exactly as it was before the call:
\* no id is assigned, no event or binding is recorded, the computed callable
\* and the hydrate flag are unchanged, and the target Node of bindState is
\* unchanged.
C29_FailedCallLeavesNode ==
  [][C29_ValidationFailed => heap' = heap]_vars

\* the part of C29 about computed, on and bindState
C29_FailedCallLeavesNodeExceptBind ==
  [][(C29_ValidationFailed /\ last'.op # "bind") => heap' = heap]_vars

(***************************************************************************)
(* The response cache under direct operations and under renders that       *)
(* write to it.                                                            *)
(***************************************************************************)
InitLimit ==
  /\ InitCommon
  /\ txt = <<>>
  /\ docs = [d \in Docs |-> Document(TRUE, IF d = 1 THEN A ELSE B)]

NextLimit ==
  \/ NextLRU
  \/ \E d \in Docs : renderOp(d)

SpecLimit == InitLimit /\ [][NextLimit]_vars

\* C30: after any sequence of get, set, delete and clear on the response
\* cache, and of renders that write to it, the number of cached entries never
\* exceeds the limit, for every limit of at least 1: the cache is within its
\* limit, and a set on a cache that is within a limit leaves it within that
\* limit.
C30_CacheWithinLimit ==
  /\ Len(responseCache) <= cacheLimit
  /\ \A limit \in 1..cacheLimit :
        Len(responseCache) <= limit =>
           \A key \in CacheKeys : Len(LRUCache_set(responseCache, limit, key, V1)) <= limit

\* a set of a new key on a full cache that holds a page a render wrote
C30_Witness ==
  /\ last.op = "set"
  /\ Len(last.pre) = cacheLimit /\ last.arg \notin Keys(last.pre)
  /\ \E en \in Range(last.pre) : en.value \notin {V1, V2}
  /\ Len(responseCache) = cacheLimit /\ last.arg \in Keys(responseCache)

====
